---------------------------- MODULE Spec2Model ----------------------------
(***************************************************************************)
(* Model of autoSubtitle: the checkpointed pipeline (core/runner.py and    *)
(* generate_subtitle.py), the checkpoint store (utils/checkpoint.py), the  *)
(* stage error handlers (utils/error_handler.py) and the timing engine     *)
(* (utils/ai/timing.py and the older utils/timing_adjuster.py).            *)
(*                                                                         *)
(* Times are integers counted in ticks of 1/15 ms, so that one second is   *)
(* 1000 * 15 ticks, len(text) / 15 seconds is len(text) * 1000 ticks, and  *)
(* rounding to a millisecond never meets a tie.                            *)
(***************************************************************************)
EXTENDS Integers, Sequences, FiniteSets, TLC

(***************************************************************************)
(* Python values                                                           *)
(***************************************************************************)
\* None, where the value is otherwise a dict (a record).
None == [none |-> TRUE]

\* Python truthiness of an optional list.  None and [] are both false and no
\* code modelled here tells them apart, so an absent list is << >>.
Truthy(x) == x # << >>

min_reading_speed == 15

\* n milliseconds, in ticks.
Ms(n) == n * min_reading_speed

\* len(text) / min_reading_speed seconds, in ticks.
ReadingDuration(text) == Len(text) * 1000

Max(a, b) == IF a >= b THEN a ELSE b

\* round(x, 3) on seconds: the nearest whole millisecond.
Round3(t) ==
    LET q == t \div min_reading_speed
        r == t % min_reading_speed
    IN  IF 2 * r > min_reading_speed THEN (q + 1) * min_reading_speed
                                     ELSE q * min_reading_speed

(***************************************************************************)
(* Text: a sequence of one-character strings.                              *)
(***************************************************************************)
Whitespace == {" "}

RECURSIVE LStrip(_)
LStrip(text) ==
    IF text # << >> /\ Head(text) \in Whitespace THEN LStrip(Tail(text)) ELSE text

RECURSIVE RStrip(_)
RStrip(text) ==
    IF text # << >> /\ text[Len(text)] \in Whitespace
    THEN RStrip(SubSeq(text, 1, Len(text) - 1))
    ELSE text

\* str.strip()
Strip(text) == RStrip(LStrip(text))

(***************************************************************************)
(* Timing engine configuration (environment settings with their defaults). *)
(***************************************************************************)
DefaultConfig ==
    [min_duration |-> Ms(1500), max_duration |-> Ms(8000), gap_settings |-> Ms(100)]

\* The setting of the documented scenario: minimum duration 1.0 s.
ScenarioConfig ==
    [min_duration |-> Ms(1000), max_duration |-> Ms(8000), gap_settings |-> Ms(100)]

Configs == {DefaultConfig, ScenarioConfig}

(***************************************************************************)
(* utils/ai/timing.py                                                      *)
(***************************************************************************)
ClosingPunctuation == {".", "?", "!", "\"", ")", "]"}

\* The punctuation fallback of utils/ai/timing.py, line 45.
PunctuationIncomplete(text) ==
    ~ (Strip(text) # << >> /\ Strip(text)[Len(Strip(text))] \in ClosingPunctuation)

HasHint(structure_analysis, i) ==
    Truthy(structure_analysis) /\ i <= Len(structure_analysis)

\* sentence_incomplete with the punctuation consulted beside the hint.
SentenceIncompleteByEither(segments, structure_analysis, i) ==
    \/ HasHint(structure_analysis, i) /\ structure_analysis[i] = "CONTINUES"
    \/ PunctuationIncomplete(segments[i].text)

\* sentence_incomplete for the cue at (1-based) position i.
SentenceIncomplete(segments, structure_analysis, i) ==
    IF HasHint(structure_analysis, i)
    THEN structure_analysis[i] = "CONTINUES"
    ELSE PunctuationIncomplete(segments[i].text)

\* The bridging without the limit of max_duration.
BridgedEndUncapped(segments, structure_analysis, cfg, i) ==
    LET start == segments[i].start
        end == segments[i].end
        next_start == segments[i + 1].start
        silence_gap == next_start - end
        potential_end == next_start - cfg.gap_settings
    IN  IF SentenceIncomplete(segments, structure_analysis, i) /\ silence_gap < Ms(4000)
        THEN potential_end
        ELSE IF silence_gap < Ms(1500)
             THEN IF potential_end - start <= cfg.max_duration
                  THEN potential_end
                  ELSE end
             ELSE end

\* The end after "Bridge gap if incomplete or gap is small" (lines 47-57).
BridgedEnd(segments, structure_analysis, cfg, i) ==
    LET start == segments[i].start
        end == segments[i].end
        next_start == segments[i + 1].start
        silence_gap == next_start - end
        potential_end == next_start - cfg.gap_settings
    IN  IF SentenceIncomplete(segments, structure_analysis, i) /\ silence_gap < Ms(4000)
        THEN IF potential_end - start <= cfg.max_duration
             THEN potential_end
             ELSE start + cfg.max_duration
        ELSE IF silence_gap < Ms(1500)
             THEN IF potential_end - start <= cfg.max_duration
                  THEN potential_end
                  ELSE end
             ELSE end

\* "Overlap check" (lines 59-61).
OverlapChecked(end, next_start, cfg) ==
    IF end >= next_start THEN next_start - cfg.gap_settings ELSE end

\* The extension without its branch for the last cue.
EnsureMinDurationBeforeNext(start, end, effective_min_duration, hasNext, next_start, cfg) ==
    IF end - start < effective_min_duration /\ hasNext
    THEN LET potential_end == start + effective_min_duration
         IN  IF potential_end < next_start - cfg.gap_settings
             THEN potential_end
             ELSE next_start - cfg.gap_settings
    ELSE end

\* "Ensure min duration" (lines 63-74); hasNext is i < len(segments) - 1.
EnsureMinDuration(start, end, effective_min_duration, hasNext, next_start, cfg) ==
    IF end - start < effective_min_duration
    THEN LET potential_end == start + effective_min_duration
         IN  IF hasNext
             THEN IF potential_end < next_start - cfg.gap_settings
                  THEN potential_end
                  ELSE next_start - cfg.gap_settings
             ELSE potential_end
    ELSE end

\* The loop body appending the times it computed without rounding them.
AdjustSegmentUnrounded(segments, structure_analysis, cfg, i) ==
    LET start == segments[i].start
        text == segments[i].text
        effective_min_duration == Max(cfg.min_duration, ReadingDuration(text))
        hasNext == i < Len(segments)
        next_start == IF hasNext THEN segments[i + 1].start ELSE 0
        end1 == IF hasNext
                THEN OverlapChecked(BridgedEnd(segments, structure_analysis, cfg, i),
                                    next_start, cfg)
                ELSE segments[i].end
        end2 == EnsureMinDuration(start, end1, effective_min_duration,
                                  hasNext, next_start, cfg)
    IN  [start |-> start, end |-> end2, text |-> text]

\* One iteration of the loop of adjust_subtitle_timing.
AdjustSegment(segments, structure_analysis, cfg, i) ==
    LET start == segments[i].start
        text == segments[i].text
        effective_min_duration == Max(cfg.min_duration, ReadingDuration(text))
        hasNext == i < Len(segments)
        next_start == IF hasNext THEN segments[i + 1].start ELSE 0
        end1 == IF hasNext
                THEN OverlapChecked(BridgedEnd(segments, structure_analysis, cfg, i),
                                    next_start, cfg)
                ELSE segments[i].end
        end2 == EnsureMinDuration(start, end1, effective_min_duration,
                                  hasNext, next_start, cfg)
    IN  [start |-> Round3(start), end |-> Round3(end2), text |-> text]

adjust_subtitle_timing(segments, structure_analysis, cfg) ==
    [i \in 1..Len(segments) |-> AdjustSegment(segments, structure_analysis, cfg, i)]

\* "Pass-through for backward compatibility"
optimize_subtitle_gaps(segments) == segments

(***************************************************************************)
(* utils/timing_adjuster.py (the older engine)                             *)
(***************************************************************************)
LegacyClosingPunctuation == {".", "?", "!", "\"", ")", "]", "..."}

is_sentence_ending(text) ==
    IF Strip(text) = << >> THEN TRUE
    ELSE Strip(text)[Len(Strip(text))] \in LegacyClosingPunctuation

LegacySentenceIncomplete(segments, structure_analysis, i) ==
    IF HasHint(structure_analysis, i)
    THEN structure_analysis[i] = "CONTINUES"
    ELSE ~ is_sentence_ending(segments[i].text)

\* KONDISI 1-3 (lines 77-94): the overlap case is the last arm of the elif
\* chain, reached only when neither bridging arm was taken.
LegacyBridgedEnd(segments, structure_analysis, cfg, i) ==
    LET start == segments[i].start
        end == segments[i].end
        next_start == segments[i + 1].start
        silence_gap == next_start - end
        potential_end == next_start - cfg.gap_settings
    IN  IF LegacySentenceIncomplete(segments, structure_analysis, i)
           /\ silence_gap < Ms(4000)
        THEN IF potential_end - start <= cfg.max_duration
             THEN potential_end
             ELSE start + cfg.max_duration
        ELSE IF silence_gap < Ms(1500)
             THEN IF potential_end - start <= cfg.max_duration
                  THEN potential_end
                  ELSE end
             ELSE IF silence_gap <= 0
                  THEN next_start - cfg.gap_settings
                  ELSE end

\* "Final Safety Check" (lines 109-111).
FinalSafetyCheck(start, end, effective_min_duration) ==
    IF end <= start THEN start + effective_min_duration ELSE end

LegacyAdjustSegment(segments, structure_analysis, cfg, i) ==
    LET start == segments[i].start
        text == segments[i].text
        effective_min_duration == Max(cfg.min_duration, ReadingDuration(text))
        hasNext == i < Len(segments)
        next_start == IF hasNext THEN segments[i + 1].start ELSE 0
        end1 == IF hasNext
                THEN LegacyBridgedEnd(segments, structure_analysis, cfg, i)
                ELSE segments[i].end
        end2 == EnsureMinDuration(start, end1, effective_min_duration,
                                  hasNext, next_start, cfg)
        end3 == FinalSafetyCheck(start, end2, effective_min_duration)
    IN  [start |-> Round3(start), end |-> Round3(end3), text |-> text]

timing_adjuster_adjust_subtitle_timing(segments, structure_analysis, cfg) ==
    [i \in 1..Len(segments) |->
        LegacyAdjustSegment(segments, structure_analysis, cfg, i)]

(***************************************************************************)
(* Subtitle items (pysrt).  A SubRipTime is its ordinal: whole             *)
(* milliseconds.  An item is [index, start, end, text].                    *)
(***************************************************************************)
\* runner.py 216-224: the hours/minutes/seconds/milliseconds of a time in
\* seconds; int() of a non-negative quotient is the floor.
TimeComponents(t) ==
    [hours        |-> t \div Ms(3600000),
     minutes      |-> (t % Ms(3600000)) \div Ms(60000),
     seconds      |-> (t % Ms(60000)) \div Ms(1000),
     milliseconds |-> (t % Ms(1000)) \div Ms(1)]

\* pysrt: SubRipTime(hours, minutes, seconds, milliseconds).
SubRipTime(c) ==
    c.hours * 3600000 + c.minutes * 60000 + c.seconds * 1000 + c.milliseconds

\* pysrt: the hours, minutes, seconds and milliseconds of a SubRipTime.
SubRipComponents(ordinal) ==
    [hours        |-> ordinal \div 3600000,
     minutes      |-> (ordinal \div 60000) % 60,
     seconds      |-> (ordinal \div 1000) % 60,
     milliseconds |-> ordinal % 1000]

\* runner.py 208-238: the temporary subtitle built from result["segments"].
BuildTempSubs(segments) ==
    [i \in 1..Len(segments) |->
        [index |-> i,
         start |-> SubRipTime(TimeComponents(segments[i].start)),
         end   |-> SubRipTime(TimeComponents(segments[i].end)),
         text  |-> Strip(segments[i].text)]]

\* An item written with whole seconds only.
SerializeSubWholeSeconds(sub) ==
    [index |-> sub.index,
     start |-> [SubRipComponents(sub.start) EXCEPT !.milliseconds = 0],
     end   |-> [SubRipComponents(sub.end) EXCEPT !.milliseconds = 0],
     text  |-> sub.text]

\* runner.py 294-303: one item as written into the translation checkpoint.
SerializeSub(sub) ==
    [index |-> sub.index,
     start |-> SubRipComponents(sub.start),
     end   |-> SubRipComponents(sub.end),
     text  |-> sub.text]

SerializeSubs(subs) == [i \in 1..Len(subs) |-> SerializeSub(subs[i])]

\* runner.py 244-252: one item rebuilt from the translation checkpoint.
DeserializeSub(sub_data) ==
    [index |-> sub_data.index,
     start |-> SubRipTime(sub_data.start),
     end   |-> SubRipTime(sub_data.end),
     text  |-> sub_data.text]

DeserializeSubs(subs_data) ==
    [i \in 1..Len(subs_data) |-> DeserializeSub(subs_data[i])]

\* runner.py 314-323: the styling tag is put before the stripped text.
StyleSub(sub) == [sub EXCEPT !.text = <<"{style}">> \o Strip(sub.text)]

ApplyStyling(subs) == [i \in 1..Len(subs) |-> StyleSub(subs[i])]

(***************************************************************************)
(* Collaborators, deterministic: what they return for one video.           *)
(***************************************************************************)
Chars5 == <<"H", "e", "l", "l", "o">>
Chars6 == <<"w", "o", "r", "l", "d", ".">>

\* What transcribe_audio (and analyze_sentence_structure) return for the
\* video: the documented two-cue scenario, one padded cue with a fraction
\* of a millisecond, and a video without speech.
Videos ==
    { [language |-> "en",
       segments |-> << [start |-> Ms(0), end |-> Ms(1000), text |-> Chars5],
                       [start |-> Ms(1050), end |-> Ms(2000), text |-> Chars6] >>,
       structure_analysis |-> <<"CONTINUES", "COMPLETE">>],
      [language |-> "id",
       segments |-> << [start |-> Ms(500) + 6, end |-> Ms(1200) + 9,
                        text |-> <<" ", "y", "a", ".", " ">>] >>,
       structure_analysis |-> << >>],
      [language |-> "en", segments |-> << >>, structure_analysis |-> << >>] }

Languages == {"en", "id"}

\* translate_subtitles: the items keep index and times, the text is the
\* translation of the text into target_lang.
translate_subtitles(subs, source_lang, target_lang) ==
    [i \in 1..Len(subs) |-> [subs[i] EXCEPT !.text = <<target_lang, ":">> \o @]]

\* utils/ai/translator.py 37-44.
determine_translation_direction(detected_lang) ==
    IF detected_lang \in {"en", "english"} THEN <<"en", "id">>
    ELSE IF detected_lang \in {"id", "indonesian"} THEN <<"id", "en">>
    ELSE <<"en", "id">>

\* runner.py 332-334: the output path depends on the video's stem only.
OutputVideoPath == "video_with_subtitle.mp4"

(***************************************************************************)
(* utils/checkpoint.py: the checkpoint file of the video.                  *)
(***************************************************************************)
\* No file at checkpoint_file.
NoFile == [kind |-> "absent"]

\* The file after open(checkpoint_file, 'w') and before json.dump has been
\* written out and the file closed: empty or cut short, not valid JSON.
Truncated == [kind |-> "truncated"]

\* The file holding one whole record.
Record(step, data) == [kind |-> "json", step |-> step, data |-> data]

\* CheckpointManager.load
Load(f) ==
    IF f.kind = "absent" THEN None
    ELSE IF f.kind = "json" THEN [step |-> f.step, data |-> f.data]
    ELSE None

\* CheckpointManager.save, first half: open(..., 'w') truncates the file.
SaveOpened(f) == Truncated

\* A second half that leaves the file as it found it.
SaveWrittenNothing(f, step, data) == f

\* CheckpointManager.save, second half: the record is written and closed.
SaveWritten(f, step, data) == Record(step, data)

\* CheckpointManager.clear
Clear(f) == IF f.kind # "absent" THEN NoFile ELSE f

(***************************************************************************)
(* utils/error_handler.py.  An exception is modelled by the set of the     *)
(* handlers' keywords that occur in str(error).lower().  A handler's       *)
(* outcome is the error it raises; raises = FALSE would be a normal return.*)
(***************************************************************************)
Raise(type, message) == [raises |-> TRUE, type |-> type, message |-> message]

handle_transcription_error(error) ==
    IF "cuda" \in error \/ "gpu" \in error
    THEN Raise("TranscriptionError", "GPU/CUDA error detected")
    ELSE IF "memory" \in error \/ "out of memory" \in error
    THEN Raise("TranscriptionError", "Out of memory error")
    ELSE IF "audio" \in error \/ "ffmpeg" \in error
    THEN Raise("TranscriptionError", "Audio extraction failed")
    ELSE Raise("TranscriptionError", "Transcription failed")

\* A handler whose last branch logs the error and returns.
handle_translation_error_returns(error) ==
    IF "api" \in error \/ "key" \in error
    THEN Raise("TranslationError", "API key error")
    ELSE IF "rate limit" \in error \/ "quota" \in error
    THEN Raise("TranslationError", "API rate limit exceeded")
    ELSE IF "network" \in error \/ "connection" \in error
    THEN Raise("TranslationError", "Network connection error")
    ELSE [raises |-> FALSE, type |-> "", message |-> ""]

handle_translation_error(error) ==
    IF "api" \in error \/ "key" \in error
    THEN Raise("TranslationError", "API key error")
    ELSE IF "rate limit" \in error \/ "quota" \in error
    THEN Raise("TranslationError", "API rate limit exceeded")
    ELSE IF "network" \in error \/ "connection" \in error
    THEN Raise("TranslationError", "Network connection error")
    ELSE Raise("TranslationError", "Translation failed")

handle_video_error(error) ==
    IF "ffmpeg" \in error
    THEN Raise("VideoProcessingError", "FFmpeg error")
    ELSE IF "codec" \in error \/ "format" \in error
    THEN Raise("VideoProcessingError", "Video format/codec error")
    ELSE IF "permission" \in error \/ "access" \in error
    THEN Raise("VideoProcessingError", "File permission error")
    ELSE Raise("VideoProcessingError", "Video processing failed")

\* The exceptions a collaborator may raise: no keyword, each keyword alone,
\* "out of memory", and two messages with keywords of different branches.
Keywords ==
    {"cuda", "gpu", "memory", "audio", "ffmpeg", "api", "key",
     "rate limit", "quota", "network", "connection", "codec", "format",
     "permission", "access"}

Errors ==
    {{}} \cup {{k} : k \in Keywords}
         \cup {{"memory", "out of memory"}, {"memory", "ffmpeg"},
               {"connection", "api"}}

\* The typed error of each stage.
StageErrorType(stage) ==
    CASE stage = "transcription" -> "TranscriptionError"
      [] stage = "translation"   -> "TranslationError"
      [] stage = "embedding"     -> "VideoProcessingError"

(***************************************************************************)
(* State                                                                   *)
(***************************************************************************)
VARIABLES
    impl,            \* "runner" (core/runner.py) or "legacy" (generate_subtitle.py)
    video,           \* what the collaborators return for the video
    target_arg,      \* the target language asked for (runner only)
    file,            \* the checkpoint file of the video
    outputFile,      \* the output video on disk: None or [subs |-> ...]
    pc,              \* position of the current run
    runs,            \* runs started so far
    run,             \* arguments and locals of the current run
    calls,           \* collaborator calls returned in the current run
    translate_input, \* what translate_subtitles was last given in this run
    stage_error,     \* the stage whose collaborator raised in this run
    raised,          \* the error that ended the run
    prev_file,       \* the file when the save in progress began
    file_at_start,   \* the file when the run began
    last_saved,      \* the file as this run's last completed save left it
    segments,        \* timing engine: input cue list
    structure_analysis, \* timing engine: hints
    config,          \* timing engine: settings
    adjusted,        \* result of utils/ai/timing.py
    adjusted_legacy, \* result of utils/timing_adjuster.py
    tpc,             \* timing engine: which calls have returned
    t_impl,          \* translator: "ai" (utils/ai/translator.py) or "legacy"
    t_subs,          \* translator: the subtitle items, translated in place
    t_original,      \* translator: the items on entry
    t_i,             \* translator: loop variable i, start of the next batch
    t_context,       \* translator: last_sentence_context
    t_calls,         \* translator: the batch calls made so far
    t_pc,            \* translator: position
    s_subs,          \* shield: the translated items, edited in place
    s_entry,         \* shield: the translated items on entry
    s_original,      \* shield: original_subs, << >> when None or empty
    s_batch,         \* shield: batch_num, batches answered so far
    s_all_actions,   \* shield: all_actions
    s_calls,         \* shield: the review requests sent so far
    s_returned,      \* shield: None or the (subs, report) returned
    s_pc,            \* shield: position
    c_files,         \* store: the files of the checkpoint directory, by stem
    c_before,        \* store: the files before the last call
    c_latest,        \* store: per stem, what the calls so far left there
    c_saver,         \* store: per stem, who made the last completed save
    c_last,          \* store: the last call and its outcome
    c_pc,            \* store: position
    a_impl,          \* analyzer: "ai" (utils/ai/timing.py) or "legacy"
    a_texts,         \* analyzer: the texts of the segments
    a_i,             \* analyzer: loop variable i, start of the next batch
    a_statuses,      \* analyzer: statuses
    a_calls,         \* analyzer: the batches analysed so far
    a_pc             \* analyzer: position

pipelineVars ==
    <<impl, video, target_arg, file, outputFile, pc, runs, run, calls,
      translate_input, stage_error, raised, prev_file, file_at_start, last_saved>>

timingVars ==
    <<segments, structure_analysis, config, adjusted, adjusted_legacy, tpc>>

translatorVars == <<t_impl, t_subs, t_original, t_i, t_context, t_calls, t_pc>>

shieldVars ==
    <<s_subs, s_entry, s_original, s_batch, s_all_actions, s_calls, s_returned,
      s_pc>>

storeVars == <<c_files, c_before, c_latest, c_saver, c_last, c_pc>>

analyzerVars == <<a_impl, a_texts, a_i, a_statuses, a_calls, a_pc>>

vars ==
    <<pipelineVars, timingVars, translatorVars, shieldVars, storeVars,
      analyzerVars>>

\* What the actions of one component leave alone: the other components.
exceptPipeline ==
    <<timingVars, translatorVars, shieldVars, storeVars, analyzerVars>>
exceptTiming ==
    <<pipelineVars, translatorVars, shieldVars, storeVars, analyzerVars>>
exceptTranslator ==
    <<pipelineVars, timingVars, shieldVars, storeVars, analyzerVars>>
exceptShield ==
    <<pipelineVars, timingVars, translatorVars, storeVars, analyzerVars>>
exceptStore ==
    <<pipelineVars, timingVars, translatorVars, shieldVars, analyzerVars>>
exceptAnalyzer ==
    <<pipelineVars, timingVars, translatorVars, shieldVars, storeVars>>

MaxRuns == 3

Impls == {"runner", "legacy"}

\* The step list of line 125 without the later steps.
OnlyTranscriptionStep == {"transcription"}

\* runner.py 125 and 241, 336: the steps at which a checkpoint carries a
\* transcription, a translation, a finished embedding.
TranscriptionSteps == {"transcription", "translation", "embedding"}
TranslationSteps == {"translation", "embedding"}
EmbeddingSteps == {"embedding"}

\* existing_checkpoint and existing_checkpoint.get('step') in steps
HasStep(cp, steps) == cp # None /\ "step" \in DOMAIN cp /\ cp.step \in steps

Running ==
    {"step2", "transcribe", "open_transcription", "write_transcription",
     "step3", "translate", "open_translation", "write_translation",
     "styling", "step4", "open_embedding", "write_embedding", "finish"}

Ended == {"idle", "returned", "failed", "killed"}

OpenPcs == {"open_transcription", "open_translation", "open_embedding"}
WritePcs == {"write_transcription", "write_translation", "write_embedding"}

\* The positions at which a stage's work, or the glue between stages, runs.
WorkPcs == {"step2", "transcribe", "step3", "translate", "styling", "step4"}

SaveStep(p) ==
    CASE p \in {"open_transcription", "write_transcription"} -> "transcription"
      [] p \in {"open_translation", "write_translation"}     -> "translation"
      [] p \in {"open_embedding", "write_embedding"}         -> "embedding"

NoCalls == [transcribe |-> 0, translate |-> 0, embed |-> 0]

\* The locals of process_video_runner / generate_subtitle on entry.
NewRun(r, t, f, i, target) ==
    [resume              |-> r,
     translate_flag      |-> t,
     existing_checkpoint |-> IF r THEN Load(f) ELSE None,
     result              |-> None,
     detected_lang       |-> "unknown",
     translated_subs     |-> << >>,
     source_lang         |-> "",
     target_lang         |-> IF i = "runner" THEN target ELSE "",
     output_video        |-> ""]

\* runner.py 196-201, 304-310, 350-355: the payload saved with each step.
Payload(step, r) ==
    CASE step = "transcription" ->
            [transcription |-> r.result, detected_lang |-> r.detected_lang,
             model_size |-> "base", language |-> "auto"]
      [] step = "translation" ->
            [transcription |-> r.result, detected_lang |-> r.detected_lang,
             translated_subs |-> SerializeSubs(r.translated_subs),
             source_lang |-> r.source_lang, target_lang |-> r.target_lang]
      [] step = "embedding" ->
            [transcription |-> r.result, detected_lang |-> r.detected_lang,
             output_video |-> r.output_video, completed |-> TRUE]

\* An interrupt handler that saved the progress of the stage in flight.
InterruptSavesProgress(f) == [kind |-> "json", step |-> "transcription",
                              data |-> [partial |-> TRUE]]

\* runner.py 379-381 (generate_subtitle.py 1003-1006): an interrupt or the
\* death of the process writes nothing.
InterruptEffect(f) == f

\* An error handler that removed the checkpoint.
FailureClears(f) == [kind |-> "absent"]

\* runner.py 382-384 (generate_subtitle.py 1007-1010): an error ends the run
\* with exit status 1 and writes nothing.
FailureEffect(f) == f

PipelineIdle ==
    /\ impl = "runner"
    /\ video = [language |-> "en", segments |-> << >>, structure_analysis |-> << >>]
    /\ target_arg = "id"
    /\ file = NoFile
    /\ outputFile = None
    /\ pc = "off"
    /\ runs = 0
    /\ run = NewRun(FALSE, FALSE, NoFile, "runner", "id")
    /\ calls = NoCalls
    /\ translate_input = None
    /\ stage_error = "none"
    /\ raised = None
    /\ prev_file = NoFile
    /\ file_at_start = NoFile
    /\ last_saved = None

TimingIdle ==
    /\ segments = << >>
    /\ structure_analysis = << >>
    /\ config = DefaultConfig
    /\ adjusted = << >>
    /\ adjusted_legacy = << >>
    /\ tpc = {}

TranslatorIdle ==
    /\ t_impl = "ai"
    /\ t_subs = << >>
    /\ t_original = << >>
    /\ t_i = 0
    /\ t_context = ""
    /\ t_calls = << >>
    /\ t_pc = "off"

ShieldIdle ==
    /\ s_subs = << >>
    /\ s_entry = << >>
    /\ s_original = << >>
    /\ s_batch = 0
    /\ s_all_actions = << >>
    /\ s_calls = << >>
    /\ s_returned = None
    /\ s_pc = "off"

StoreIdle ==
    /\ c_files = << >>
    /\ c_before = << >>
    /\ c_latest = << >>
    /\ c_saver = << >>
    /\ c_last = None
    /\ c_pc = "off"

AnalyzerIdle ==
    /\ a_impl = "ai"
    /\ a_texts = << >>
    /\ a_i = 0
    /\ a_statuses = << >>
    /\ a_calls = << >>
    /\ a_pc = "off"

Init ==
    /\ impl \in Impls
    /\ video \in Videos
    /\ target_arg \in Languages
    /\ file = NoFile
    /\ outputFile = None
    /\ pc = "idle"
    /\ runs = 0
    /\ run = NewRun(FALSE, FALSE, NoFile, impl, target_arg)
    /\ calls = NoCalls
    /\ translate_input = None
    /\ stage_error = "none"
    /\ raised = None
    /\ prev_file = NoFile
    /\ file_at_start = NoFile
    /\ last_saved = None
    /\ TimingIdle
    /\ TranslatorIdle
    /\ ShieldIdle
    /\ StoreIdle
    /\ AnalyzerIdle

(***************************************************************************)
(* The pipeline: process_video_runner (runner.py 46-416) and               *)
(* generate_subtitle (generate_subtitle.py 74-401).                        *)
(***************************************************************************)
\* A raw (untyped) exception ends the run like any other error.
Fail(type, message) ==
    /\ pc' = "failed"
    /\ raised' = [type |-> type, message |-> message]
    /\ file' = FailureEffect(file)

\* A collaborator of stage `stage` raised `error`; `out` is what the stage's
\* handler did with it; `continue` is where the code goes on should the
\* handler return.
StageFails(stage, out, continue) ==
    /\ stage_error' = stage
    /\ file' = FailureEffect(file)
    /\ IF out.raises
       THEN /\ pc' = "failed"
            /\ raised' = [type |-> out.type, message |-> out.message]
       ELSE /\ pc' = continue
            /\ UNCHANGED raised

\* Entry: overwrite protection (runner.py 67-87, the user's answer is ow),
\* then the checkpoint is loaded when resume is set (runner.py 94-104).
StartRun(r, t, ow) ==
    /\ pc \in Ended
    /\ runs < MaxRuns
    /\ runs' = runs + 1
    /\ outputFile' = IF impl = "runner" /\ outputFile # None /\ ~ow
                     THEN None ELSE outputFile
    /\ run' = NewRun(r, t, file, impl, target_arg)
    /\ pc' = "step2"
    /\ calls' = NoCalls
    /\ translate_input' = None
    /\ stage_error' = "none"
    /\ raised' = None
    /\ prev_file' = file
    /\ file_at_start' = file
    /\ last_saved' = None
    /\ UNCHANGED <<exceptPipeline, impl, video, target_arg, file>>

\* result = existing_checkpoint['data'].get('transcription'), None when the
\* lookup raises (runner.py 125-132).
CheckpointTranscription(cp) ==
    IF HasStep(cp, TranscriptionSteps) /\ "data" \in DOMAIN cp
       /\ "transcription" \in DOMAIN cp.data
    THEN cp.data.transcription
    ELSE None

\* result.get("language", default)
ResultLanguage(result, default) ==
    IF "language" \in DOMAIN result THEN result.language ELSE default

\* Step 2, first half: the transcription is taken from the checkpoint
\* (runner.py 125-134, generate_subtitle.py 142-148).
CheckTranscription ==
    /\ pc = "step2"
    /\ LET cp == run.existing_checkpoint
           loaded == CheckpointTranscription(cp)
       IN  IF loaded # None
           THEN /\ run' = [run EXCEPT
                      !.result = loaded,
                      !.detected_lang =
                          ResultLanguage(loaded, IF impl = "runner"
                                                 THEN run.detected_lang
                                                 ELSE "unknown")]
                /\ pc' = "step3"
                /\ UNCHANGED <<raised, file>>
           ELSE IF impl = "legacy" /\ HasStep(cp, TranscriptionSteps)
           THEN /\ Fail("KeyError", "transcription")
                /\ UNCHANGED run
           ELSE /\ pc' = "transcribe"
                /\ UNCHANGED <<run, raised, file>>
    /\ UNCHANGED <<exceptPipeline, impl, video, target_arg, outputFile, runs, calls,
                   translate_input, stage_error, prev_file, file_at_start,
                   last_saved>>

\* runner.py 170-193: transcribe_audio, then the timing adjustment.
Transcribed ==
    [language |-> video.language,
     segments |-> optimize_subtitle_gaps(
                      adjust_subtitle_timing(video.segments,
                                             video.structure_analysis,
                                             DefaultConfig))]

\* Where the run goes after a stage's work: to the save when a checkpoint
\* manager exists (resume), else straight on.
AfterWork(resume, open, next) == IF resume THEN open ELSE next

Transcribe ==
    /\ pc = "transcribe"
    /\ run' = [run EXCEPT !.result = Transcribed,
                          !.detected_lang = ResultLanguage(Transcribed, "unknown")]
    /\ calls' = [calls EXCEPT !.transcribe = @ + 1]
    /\ pc' = AfterWork(run.resume, "open_transcription", "step3")
    /\ UNCHANGED <<exceptPipeline, impl, video, target_arg, file, outputFile, runs,
                   translate_input, stage_error, raised, prev_file,
                   file_at_start, last_saved>>

\* runner.py 202-203.
TranscribeFails(error) ==
    /\ pc = "transcribe"
    /\ StageFails("transcription", handle_transcription_error(error), "step3")
    /\ UNCHANGED <<exceptPipeline, impl, video, target_arg, outputFile, runs, run, calls,
                   translate_input, prev_file, file_at_start, last_saved>>

\* CheckpointManager.save, first half (checkpoint.py 50).
SaveOpen ==
    /\ pc \in OpenPcs
    /\ prev_file' = file
    /\ file' = SaveOpened(file)
    /\ pc' = CASE pc = "open_transcription" -> "write_transcription"
               [] pc = "open_translation"   -> "write_translation"
               [] pc = "open_embedding"     -> "write_embedding"
    /\ UNCHANGED <<exceptPipeline, impl, video, target_arg, outputFile, runs, run, calls,
                   translate_input, stage_error, raised, file_at_start,
                   last_saved>>

\* CheckpointManager.save, second half (checkpoint.py 51).
SaveWrite ==
    /\ pc \in WritePcs
    /\ file' = SaveWritten(file, SaveStep(pc), Payload(SaveStep(pc), run))
    /\ last_saved' = file'
    /\ pc' = CASE pc = "write_transcription" -> "step3"
               [] pc = "write_translation"   -> "styling"
               [] pc = "write_embedding"     -> "finish"
    /\ UNCHANGED <<exceptPipeline, impl, video, target_arg, outputFile, runs, run, calls,
                   translate_input, stage_error, raised, prev_file,
                   file_at_start>>

\* Without translate_flag the function ends after step 2 and returns None.
SkipTranslation ==
    /\ pc = "step3"
    /\ ~ run.translate_flag
    /\ pc' = "returned"
    /\ UNCHANGED <<exceptPipeline, impl, video, target_arg, file, outputFile, runs, run, calls,
                   translate_input, stage_error, raised, prev_file,
                   file_at_start, last_saved>>

\* data.get(key, default)
Get(data, key, default) == IF key \in DOMAIN data THEN data[key] ELSE default

\* Step 3, first half: the translation is taken from the checkpoint
\* (runner.py 240-258, generate_subtitle.py 226-246).  The runner falls back
\* to translating when the payload has no translated_subs or an empty list;
\* generate_subtitle lets the KeyError escape.  Before that temp_subs is
\* built from result["segments"] (runner.py 211, generate_subtitle.py 190).
CheckTranslation ==
    /\ pc = "step3"
    /\ run.translate_flag
    /\ LET cp == run.existing_checkpoint
       IN  IF run.result = None
           THEN /\ Fail("TypeError", "result")
                /\ UNCHANGED run
           ELSE IF "segments" \notin DOMAIN run.result
           THEN /\ Fail("KeyError", "segments")
                /\ UNCHANGED run
           ELSE IF ~ HasStep(cp, TranslationSteps)
           THEN /\ pc' = "translate"
                /\ UNCHANGED <<run, raised, file>>
           ELSE IF "translated_subs" \notin DOMAIN cp.data
           THEN IF impl = "runner"
                THEN /\ pc' = "translate"
                     /\ UNCHANGED <<run, raised, file>>
                ELSE /\ Fail("KeyError", "translated_subs")
                     /\ UNCHANGED run
           ELSE /\ run' = [run EXCEPT
                      !.translated_subs = DeserializeSubs(cp.data.translated_subs),
                      !.source_lang = Get(cp.data, "source_lang", run.detected_lang),
                      !.target_lang = Get(cp.data, "target_lang", run.target_lang)]
                /\ pc' = IF impl = "runner"
                            /\ ~ Truthy(DeserializeSubs(cp.data.translated_subs))
                         THEN "translate" ELSE "styling"
                /\ UNCHANGED <<raised, file>>
    /\ UNCHANGED <<exceptPipeline, impl, video, target_arg, outputFile, runs, calls,
                   translate_input, stage_error, prev_file, file_at_start,
                   last_saved>>

\* The languages of a translation: the runner takes the target asked for
\* (runner.py 262-269), generate_subtitle derives both (line 249).
Direction(i, r) ==
    IF i = "runner" THEN <<r.detected_lang, r.target_lang>>
    ELSE determine_translation_direction(r.detected_lang)

\* runner.py 277-279: equal languages skip the translation (runner only).
TranslationSkipped(i, r) == i = "runner" /\ Direction(i, r)[1] = Direction(i, r)[2]

Translate ==
    /\ pc = "translate"
    /\ LET temp_subs == BuildTempSubs(run.result.segments)
           source_lang == Direction(impl, run)[1]
           target_lang == Direction(impl, run)[2]
       IN  IF TranslationSkipped(impl, run)
           THEN /\ run' = [run EXCEPT !.translated_subs = temp_subs,
                                      !.source_lang = source_lang,
                                      !.target_lang = target_lang]
                /\ pc' = "styling"
                /\ UNCHANGED <<calls, translate_input>>
           ELSE /\ run' = [run EXCEPT
                      !.translated_subs =
                          translate_subtitles(temp_subs, source_lang, target_lang),
                      !.source_lang = source_lang,
                      !.target_lang = target_lang]
                /\ calls' = [calls EXCEPT !.translate = @ + 1]
                /\ translate_input' = [subs |-> temp_subs]
                /\ pc' = AfterWork(run.resume, "open_translation", "styling")
    /\ UNCHANGED <<exceptPipeline, impl, video, target_arg, file, outputFile, runs,
                   stage_error, raised, prev_file, file_at_start, last_saved>>

\* runner.py 311-312.
TranslateFails(error) ==
    /\ pc = "translate"
    /\ ~ TranslationSkipped(impl, run)
    /\ StageFails("translation", handle_translation_error(error), "styling")
    /\ UNCHANGED <<exceptPipeline, impl, video, target_arg, outputFile, runs, run, calls,
                   translate_input, prev_file, file_at_start, last_saved>>

\* runner.py 314-329: styling, then the temporary subtitle file.
Styling ==
    /\ pc = "styling"
    /\ run' = [run EXCEPT !.translated_subs = ApplyStyling(run.translated_subs)]
    /\ pc' = "step4"
    /\ UNCHANGED <<exceptPipeline, impl, video, target_arg, file, outputFile, runs, calls,
                   translate_input, stage_error, raised, prev_file,
                   file_at_start, last_saved>>

\* The embedding skipped on the word of the checkpoint alone.
EmbeddingSkippedUnseen == HasStep(run.existing_checkpoint, EmbeddingSteps)

\* runner.py 336-340: the output exists and the checkpoint says embedding.
EmbeddingSkipped == HasStep(run.existing_checkpoint, EmbeddingSteps) /\ outputFile # None

SkipEmbedding ==
    /\ pc = "step4"
    /\ EmbeddingSkipped
    /\ run' = [run EXCEPT !.output_video = OutputVideoPath]
    /\ pc' = "finish"
    /\ UNCHANGED <<exceptPipeline, impl, video, target_arg, file, outputFile, runs, calls,
                   translate_input, stage_error, raised, prev_file,
                   file_at_start, last_saved>>

\* runner.py 341-355: embed; the embedding checkpoint is saved only on the
\* branch that did not start from an embedding checkpoint.
Embed ==
    /\ pc = "step4"
    /\ ~ EmbeddingSkipped
    /\ outputFile' = [subs |-> run.translated_subs]
    /\ run' = [run EXCEPT !.output_video = OutputVideoPath]
    /\ calls' = [calls EXCEPT !.embed = @ + 1]
    /\ pc' = IF HasStep(run.existing_checkpoint, EmbeddingSteps)
             THEN "finish"
             ELSE AfterWork(run.resume, "open_embedding", "finish")
    /\ UNCHANGED <<exceptPipeline, impl, video, target_arg, file, runs, translate_input,
                   stage_error, raised, prev_file, file_at_start, last_saved>>

\* runner.py 344-345, 356-357.
EmbedFails(error) ==
    /\ pc = "step4"
    /\ ~ EmbeddingSkipped
    /\ StageFails("embedding", handle_video_error(error), "finish")
    /\ UNCHANGED <<exceptPipeline, impl, video, target_arg, outputFile, runs, run, calls,
                   translate_input, prev_file, file_at_start, last_saved>>

\* runner.py 359-377: cleanup, summary, `if checkpoint: checkpoint.clear()`,
\* return output_video.
ClearedOnSuccess(resume, f) == IF resume THEN Clear(f) ELSE f

Finish ==
    /\ pc = "finish"
    /\ file' = ClearedOnSuccess(run.resume, file)
    /\ pc' = "returned"
    /\ UNCHANGED <<exceptPipeline, impl, video, target_arg, outputFile, runs, run, calls,
                   translate_input, stage_error, raised, prev_file,
                   file_at_start, last_saved>>

\* The process is interrupted or dies, at any point of a run; `raised`
\* keeps the position at which it was.
Kill ==
    /\ pc \in Running
    /\ pc' = "killed"
    /\ raised' = [type |-> "Interrupted", message |-> pc]
    /\ file' = InterruptEffect(file)
    /\ UNCHANGED <<exceptPipeline, impl, video, target_arg, outputFile, runs, run, calls,
                   translate_input, stage_error, prev_file, file_at_start,
                   last_saved>>

\* Between runs the user may remove the output video ("file might have
\* been deleted", generate_subtitle.py 335).
DeleteOutput ==
    /\ pc \in Ended
    /\ outputFile # None
    /\ outputFile' = None
    /\ UNCHANGED <<exceptPipeline, impl, video, target_arg, file, pc, runs, run, calls,
                   translate_input, stage_error, raised, prev_file,
                   file_at_start, last_saved>>

Next ==
    \/ \E r \in BOOLEAN, t \in BOOLEAN, ow \in BOOLEAN : StartRun(r, t, ow)
    \/ CheckTranscription
    \/ Transcribe
    \/ \E error \in Errors : TranscribeFails(error)
    \/ SaveOpen
    \/ SaveWrite
    \/ SkipTranslation
    \/ CheckTranslation
    \/ Translate
    \/ \E error \in Errors : TranslateFails(error)
    \/ Styling
    \/ SkipEmbedding
    \/ Embed
    \/ \E error \in Errors : EmbedFails(error)
    \/ Finish
    \/ Kill
    \/ DeleteOutput

Spec == Init /\ [][Next]_vars

\* Records that parse but that no run wrote: a stage that is none of the
\* three, a payload without its transcription, a transcription that is an
\* object without segments, a translation payload without translated_subs;
\* and the file that does not parse.
CorruptFiles ==
    LET transcription ==
            [language |-> "en",
             segments |-> <<[start |-> Ms(0), end |-> Ms(1000), text |-> Chars5]>>]
    IN  {Truncated,
         Record("unknown", [transcription |-> transcription]),
         Record("transcription", [detected_lang |-> "en"]),
         Record("transcription", [transcription |-> [language |-> "en"]]),
         Record("translation", [transcription |-> transcription,
                                detected_lang |-> "en"]),
         Record("embedding", [detected_lang |-> "en"])}

\* The first run finds such a file in the store.
InitCorrupt ==
    /\ impl \in Impls
    /\ video \in Videos
    /\ target_arg \in Languages
    /\ file \in CorruptFiles
    /\ outputFile = None
    /\ pc = "idle"
    /\ runs = 0
    /\ run = NewRun(FALSE, FALSE, NoFile, impl, target_arg)
    /\ calls = NoCalls
    /\ translate_input = None
    /\ stage_error = "none"
    /\ raised = None
    /\ prev_file = NoFile
    /\ file_at_start = NoFile
    /\ last_saved = None
    /\ TimingIdle
    /\ TranslatorIdle
    /\ ShieldIdle
    /\ StoreIdle
    /\ AnalyzerIdle

SpecCorrupt == InitCorrupt /\ [][Next]_vars

(***************************************************************************)
(* Claims about the pipeline and its checkpoints.                          *)
(***************************************************************************)
\* The current run was started with resume, and the store then held a
\* whole record of one of `steps`.
ResumedFrom(steps) ==
    run.resume /\ file_at_start.kind = "json" /\ file_at_start.step \in steps

\* C1: in a run started with resume while the store holds a record of stage
\* transcription or later that carries a transcription, the transcription
\* collaborator is never invoked, and what the translation stage is given
\* is built from the segments of the payload.
C1_ResumeSkip ==
    (/\ ResumedFrom({"transcription", "translation", "embedding"})
     /\ "transcription" \in DOMAIN file_at_start.data
     /\ file_at_start.data.transcription # None)
    => /\ calls.transcribe = 0
       /\ pc # "transcribe"
       /\ translate_input # None =>
              translate_input.subs =
                  BuildTempSubs(file_at_start.data.transcription.segments)

C1_Witness ==
    /\ ResumedFrom({"transcription"})
    /\ pc = "returned"
    /\ calls = [transcribe |-> 0, translate |-> 1, embed |-> 1]
    /\ Len(translate_input.subs) = 2

\* C2: a run resumed from a record of stage translation or embedding takes
\* the translated cue list from the payload and invokes neither the
\* transcription nor the translation collaborator.
C2_PayloadSufficiency ==
    ResumedFrom({"translation", "embedding"})
    => /\ calls.transcribe = 0
       /\ calls.translate = 0
       /\ ~ (pc = "failed" /\ stage_error = "none")
       /\ pc = "styling" =>
              /\ "translated_subs" \in DOMAIN file_at_start.data
              /\ run.translated_subs =
                     DeserializeSubs(file_at_start.data.translated_subs)

\* The work of the stage that `step` names has returned in this run.
StageWorkReturned(step) ==
    CASE step = "transcription" -> calls.transcribe = 1 /\ run.result = Transcribed
      [] step = "translation"   -> calls.translate = 1
                                       /\ Len(run.translated_subs) =
                                              Len(run.result.segments)
      [] step = "embedding"     -> calls.embed = 1 /\ outputFile # None
                                       /\ run.output_video = OutputVideoPath

\* A save is reached only with the stage's work done.
SaveAfterWork ==
    pc \in OpenPcs \cup WritePcs => StageWorkReturned(SaveStep(pc))

\* A run that found the record of the stage before S runs S's work again
\* before it goes past S.
StageReExecuted ==
    /\ (run.resume /\ Load(file_at_start) = None /\ pc = "step3")
           => calls.transcribe = 1
    /\ (ResumedFrom({"transcription"}) /\ pc = "styling"
            /\ ~ TranslationSkipped(impl, run))
           => calls.translate = 1
    /\ (ResumedFrom({"translation"}) /\ pc = "finish") => calls.embed = 1

\* C3: a stage's record is saved only after all the work of the stage has
\* returned; while a stage is in flight no step, the death of the process
\* included, changes the stored record; and the next run executes the
\* stage again.
C3_NoPartialStageCheckpoint ==
    [][/\ pc \in WorkPcs => file' = file
       /\ SaveAfterWork'
       /\ StageReExecuted']_vars

C3_Witness ==
    /\ pc = "killed"
    /\ raised.message = "translate"
    /\ file.kind = "json"
    /\ file.step = "transcription"
    /\ runs = 1

\* C4: when a run ends with an error, the store is left as it was: it holds
\* what the run's last completed save wrote, or, with no save completed in
\* the run, what it held when the run began.
C4_FailurePreservesCheckpoint ==
    [][(pc' = "failed" /\ pc # "failed")
           => /\ file' = file
              /\ file' = IF last_saved # None THEN last_saved ELSE file_at_start]_vars

C4_Witness ==
    /\ pc = "failed"
    /\ stage_error = "embedding"
    /\ file.kind = "json"
    /\ file.step = "translation"
    /\ last_saved = file

\* The save in progress, also when the process died during it.
SaveInProgress ==
    IF pc \in WritePcs THEN pc
    ELSE IF pc = "killed" /\ raised.message \in WritePcs THEN raised.message
    ELSE "none"

\* C5: at every instant of a save, the process dying during it included,
\* a reader of the store finds the whole record it held before the save or
\* the whole new record.
C5_AtomicSave ==
    SaveInProgress # "none"
    => \/ Load(file) = Load(prev_file)
       \/ Load(file) = [step |-> SaveStep(SaveInProgress),
                        data |-> Payload(SaveStep(SaveInProgress), run)]

\* C6: after a run has completed every stage and returned its output path,
\* the store holds no checkpoint for the video.
C6_ClearOnSuccess ==
    (pc = "returned" /\ run.output_video # "") => Load(file) = None

StageRank(step) ==
    CASE step = "transcription" -> 1
      [] step = "translation"   -> 2
      [] step = "embedding"     -> 3

\* C7: no save replaces a stored record by the record of an earlier stage.
C7_StageMonotonicity ==
    [][(pc \in WritePcs /\ prev_file.kind = "json" /\ file'.kind = "json")
           => StageRank(file'.step) >= StageRank(prev_file.step)]_vars

\* What one uninterrupted run leaves as the final cue list of the video.
UninterruptedCues ==
    LET temp_subs == BuildTempSubs(Transcribed.segments)
        direction == IF impl = "runner" THEN <<video.language, target_arg>>
                     ELSE determine_translation_direction(video.language)
    IN  ApplyStyling(IF impl = "runner" /\ direction[1] = direction[2]
                     THEN temp_subs
                     ELSE translate_subtitles(temp_subs, direction[1],
                                              direction[2]))

\* C8: whatever saves and interruptions came before it, a run that returns
\* an output path has the final cue list (texts and times) and the output
\* path of one uninterrupted run, and so has every output video written;
\* in process_video_runner a resumed run fails only when a collaborator
\* does.
C8_ResumeEquivalence ==
    /\ (pc = "returned" /\ run.output_video # "")
           => /\ run.translated_subs = UninterruptedCues
              /\ run.output_video = OutputVideoPath
    /\ outputFile # None => outputFile.subs = UninterruptedCues
    /\ (impl = "runner" /\ pc = "failed") => stage_error # "none"

C8_Witness ==
    /\ pc = "returned"
    /\ ResumedFrom({"translation"})
    /\ calls = [transcribe |-> 0, translate |-> 0, embed |-> 1]
    /\ Len(run.translated_subs) = 2
    /\ outputFile # None

\* C9: an exception raised in the transcription, translation or embedding
\* stage ends the run with that stage's typed error; the run never goes on
\* to the next stage.
C9_TypedStageErrors ==
    stage_error # "none"
    => /\ pc = "failed"
       /\ raised.type = StageErrorType(stage_error)

C9_Witness ==
    /\ stage_error = "translation"
    /\ pc = "failed"
    /\ raised = [type |-> "TranslationError", message |-> "Translation failed"]

\* C21: a stored checkpoint that is corrupt (it does not parse, or its stage
\* or the payload of its stage is missing or ill-typed) never makes a
\* resumed run fail: a run that fails does so because a collaborator raised,
\* and a run that found no usable transcription transcribes again.
C21_CorruptionNeverFatal ==
    (run.resume /\ file_at_start \in CorruptFiles) =>
        /\ pc = "failed" => stage_error # "none"
        /\ (pc \in {"step3", "translate", "styling", "step4", "finish", "returned"}
            /\ CheckpointTranscription(Load(file_at_start)) = None)
           => calls.transcribe = 1

\* C34: in a run of process_video_runner resumed from a checkpoint of stage
\* embedding, the embedding stage does not invoke the collaborator when the
\* output video exists, and returns the existing path; it invokes the
\* collaborator when the output video does not exist; and the run that
\* returns has cleared the checkpoint.
C34_EmbeddingShortCircuit ==
    /\ [][(/\ impl = "runner"
           /\ ResumedFrom({"embedding"})
           /\ pc = "step4"
           /\ pc' # "killed")
          => IF outputFile # None
             THEN /\ calls' = calls
                  /\ outputFile' = outputFile
                  /\ run'.output_video = OutputVideoPath
                  /\ pc' = "finish"
             ELSE \/ /\ calls'.embed = calls.embed + 1
                     /\ outputFile' = [subs |-> run.translated_subs]
                     /\ pc' = "finish"
                  \/ /\ stage_error' = "embedding"
                     /\ pc' = "failed"]_vars
    /\ []((impl = "runner" /\ ResumedFrom({"embedding"}) /\ pc = "returned"
           /\ run.output_video # "")
          => Load(file) = None)

\* Resumed from an embedding checkpoint with the output in place: the run
\* returned the path without embedding, and the checkpoint is gone.
C34_Witness ==
    /\ impl = "runner"
    /\ ResumedFrom({"embedding"})
    /\ pc = "returned"
    /\ run.output_video = OutputVideoPath
    /\ calls.embed = 0
    /\ outputFile # None
    /\ file = NoFile

\* C23: a run started with resume disabled while the store holds a
\* checkpoint of the video deletes that checkpoint and reuses none of its
\* payload: from its start on the store holds no checkpoint of the video,
\* and a run that returns has executed the transcription itself.
C23_StartFreshDeletes ==
    (runs > 0 /\ ~run.resume /\ Load(file_at_start) # None) =>
        /\ Load(file) = None
        /\ pc = "returned" => calls.transcribe = 1

(***************************************************************************)
(* The timing engine on its own: both engines applied to one input.        *)
(***************************************************************************)
MaxCues == 2

Starts == {Ms(0), Ms(50) + 6, Ms(1050), Ms(9000)}

\* The longest is above max_duration: from 0.0 s it ends 140 ms before a
\* cue that starts at 9.0 s, from 0.0504 s less than 90 ms before it.
Durations == {Ms(1000), Ms(5500) + 9, Ms(8860)}

\* An incomplete sentence, a complete one, and a complete one that takes
\* 2.0 s to read (30 characters).
Chars30 == [i \in 1..30 |-> IF i = 30 THEN "." ELSE "a"]

Texts == {Chars5, Chars6, Chars30}

Cues ==
    {[start |-> s, end |-> s + d, text |-> x] :
        s \in Starts, d \in Durations, x \in Texts}

\* Cue lists as a transcription returns them: start times never decrease.
NonDecreasingStarts(list) ==
    \A i \in 1..(Len(list) - 1) : list[i].start <= list[i + 1].start

CueLists ==
    {list \in UNION {[1..n -> Cues] : n \in 0..MaxCues} : NonDecreasingStarts(list)}

Hints == {"COMPLETE", "CONTINUES"}

\* No hints, or hints for all cues, or for all but the last.
HintLists(n) ==
    {<< >>} \cup [1..n -> Hints] \cup (IF n > 1 THEN [1..(n - 1) -> Hints] ELSE {})

InitTiming ==
    /\ segments \in CueLists
    /\ structure_analysis \in HintLists(Len(segments))
    /\ config \in Configs
    /\ adjusted = << >>
    /\ adjusted_legacy = << >>
    /\ tpc = {}
    /\ PipelineIdle
    /\ TranslatorIdle
    /\ ShieldIdle
    /\ StoreIdle
    /\ AnalyzerIdle

\* utils/ai/timing.py adjust_subtitle_timing is called.
Adjust ==
    /\ "ai" \notin tpc
    /\ adjusted' = adjust_subtitle_timing(segments, structure_analysis, config)
    /\ tpc' = tpc \cup {"ai"}
    /\ UNCHANGED <<exceptTiming, segments, structure_analysis, config,
                   adjusted_legacy>>

\* utils/timing_adjuster.py adjust_subtitle_timing is called.
LegacyAdjust ==
    /\ "legacy" \notin tpc
    /\ adjusted_legacy' =
           timing_adjuster_adjust_subtitle_timing(segments, structure_analysis,
                                                  config)
    /\ tpc' = tpc \cup {"legacy"}
    /\ UNCHANGED <<exceptTiming, segments, structure_analysis, config, adjusted>>

NextTiming == Adjust \/ LegacyAdjust

SpecTiming == InitTiming /\ [][NextTiming]_vars

(***************************************************************************)
(* Claims about the timing engine.                                         *)
(***************************************************************************)
NoOverlap(list) ==
    \A i \in 1..(Len(list) - 1) : list[i].end <= list[i + 1].start

\* C10: for every cue list with non-decreasing start times and every hints
\* list, the list adjust_subtitle_timing returns has
\* cue[i].end <= cue[i+1].start for every adjacent pair, in
\* utils/ai/timing.py and in utils/timing_adjuster.py alike.
C10_NoOverlap ==
    /\ "ai" \in tpc => NoOverlap(adjusted)
    /\ "legacy" \in tpc => NoOverlap(adjusted_legacy)

\* The same property of utils/ai/timing.py alone.
C10_NoOverlapAi == "ai" \in tpc => NoOverlap(adjusted)

PositiveDurations(list) == \A i \in 1..Len(list) : list[i].end > list[i].start

\* C11: for every cue list whose cues have end > start and whose starts
\* never decrease, every cue adjust_subtitle_timing returns has end > start
\* and the starts of the returned list never decrease, in both engines.
C11_PositiveDuration ==
    (PositiveDurations(segments) /\ NonDecreasingStarts(segments))
    => /\ "ai" \in tpc =>
              PositiveDurations(adjusted) /\ NonDecreasingStarts(adjusted)
       /\ "legacy" \in tpc =>
              /\ PositiveDurations(adjusted_legacy)
              /\ NonDecreasingStarts(adjusted_legacy)

\* The part of the property that utils/timing_adjuster.py has.
C11_PositiveDurationLegacy ==
    "legacy" \in tpc =>
        PositiveDurations(adjusted_legacy) /\ NonDecreasingStarts(adjusted_legacy)

\* The cue at position i of `list` is the input cue but for its end.
Framed(list, i) ==
    /\ DOMAIN list[i] = {"start", "end", "text"}
    /\ list[i].text = segments[i].text
    /\ list[i].start = Round3(segments[i].start)

ShortPause(i) ==
    i < Len(segments) /\ segments[i + 1].start - segments[i].end < Ms(1500)

\* C29: every cue of utils/ai/timing.py that is followed by a cue after a
\* silence gap below 1.5 s ends, once adjusted, no later than
\* next.start - gap_settings (to the millisecond), whatever the bridging or
\* the minimum duration ask for; the cue (0.0, 1.0, "Hello") followed by a
\* cue "world." that starts at 1.05 gets, with a minimum duration of 1.0 s,
\* the end 0.95.
C29_ClampOnShortPause ==
    "ai" \in tpc =>
        /\ \A i \in 1..Len(adjusted) :
               ShortPause(i) =>
                   adjusted[i].end <=
                       Round3(segments[i + 1].start - config.gap_settings)
        /\ (/\ config = ScenarioConfig
            /\ structure_analysis = << >>
            /\ segments = <<[start |-> Ms(0), end |-> Ms(1000), text |-> Chars5],
                            [start |-> Ms(1050), end |-> Ms(2050), text |-> Chars6]>>)
           => adjusted[1].end = Ms(950)

Min(a, b) == IF a <= b THEN a ELSE b

\* The silence after the cue at position i is below 4.0 s.
Bridgeable(i) ==
    i < Len(segments) /\ segments[i + 1].start - segments[i].end < Ms(4000)

\* Where the bridging is to put the end of the cue at position i.
BridgeTarget(i) ==
    Min(segments[i + 1].start - config.gap_settings,
        segments[i].start + config.max_duration)

\* The bridging step gave `bridged` and the engine returned `list`: the step
\* put the end on the target, and the engine returns that end when it
\* leaves the cue its minimum duration.
BridgedTo(bridged, list, i) ==
    /\ bridged = BridgeTarget(i)
    /\ bridged <= segments[i].start + config.max_duration
    /\ BridgeTarget(i) - segments[i].start
           >= Max(config.min_duration, ReadingDuration(segments[i].text))
       => list[i].end = Round3(BridgeTarget(i))

\* C30: for every cue that has a following cue, is sentence-incomplete and
\* has a silence gap below 4.0 s, the end after the bridging step is
\* min(next.start - gap_settings, start + max_duration), never later than
\* start + max_duration; in both engines.
C30_LinguisticBridging ==
    \A i \in 1..(Len(segments) - 1) :
        /\ ("ai" \in tpc /\ Bridgeable(i)
            /\ SentenceIncomplete(segments, structure_analysis, i))
           => BridgedTo(BridgedEnd(segments, structure_analysis, config, i),
                        adjusted, i)
        /\ ("legacy" \in tpc /\ Bridgeable(i)
            /\ LegacySentenceIncomplete(segments, structure_analysis, i))
           => BridgedTo(LegacyBridgedEnd(segments, structure_analysis, config, i),
                        adjusted_legacy, i)

\* An unfinished sentence of 5.5 s and 3.5 s of silence after it: both
\* engines stretch the cue to max_duration, short of the next cue.
C30_Witness ==
    /\ tpc = {"ai", "legacy"}
    /\ Len(segments) = 2
    /\ structure_analysis = <<"CONTINUES">>
    /\ segments[1].start = Ms(0)
    /\ segments[1].end = Ms(5500) + 9
    /\ segments[2].start = Ms(9000)
    /\ adjusted[1].end = config.max_duration
    /\ adjusted_legacy[1].end = config.max_duration
    /\ adjusted[1].end < segments[2].start - config.gap_settings

\* What decides sentence_incomplete for the cue at position i: its hint when
\* the hints list reaches position i, `punctuation` otherwise.
HintOr(i, punctuation) ==
    IF structure_analysis # << >> /\ i <= Len(structure_analysis)
    THEN structure_analysis[i] = "CONTINUES"
    ELSE punctuation

\* The cue at position i has its minimum duration and is followed by a
\* silence of 1.5 s to 4.0 s: only a bridge moves its end.
OnlyBridgeMoves(i) ==
    /\ i < Len(segments)
    /\ segments[i + 1].start - segments[i].end >= Ms(1500)
    /\ segments[i + 1].start - segments[i].end < Ms(4000)
    /\ segments[i].end - segments[i].start
           >= Max(config.min_duration, ReadingDuration(segments[i].text))

\* The end of the cue at position i of `list` is bridged exactly when
\* `incomplete` holds.
BridgedWhen(incomplete, list, i) ==
    list[i].end = IF incomplete THEN Round3(BridgeTarget(i))
                  ELSE Round3(segments[i].end)

\* Trailing characters that close a sentence for the fallback.
EndsSentence(text, closing) ==
    Strip(text) # << >> /\ Strip(text)[Len(Strip(text))] \in closing

\* C31: when a hint exists for cue i it alone decides sentence_incomplete
\* (CONTINUES is incomplete, anything else complete) whatever the
\* punctuation of the cue; the punctuation decides only for a cue without a
\* hint (no hints list, or one shorter than the index of the cue); in both
\* engines, and as the returned ends show.
C31_HintAuthoritative ==
    \A i \in 1..Len(segments) :
        /\ SentenceIncomplete(segments, structure_analysis, i) =
               HintOr(i, ~ EndsSentence(segments[i].text,
                                        {".", "?", "!", "\"", ")", "]"}))
        /\ LegacySentenceIncomplete(segments, structure_analysis, i) =
               HintOr(i, /\ Strip(segments[i].text) # << >>
                         /\ ~ EndsSentence(segments[i].text,
                                           LegacyClosingPunctuation))
        /\ ("ai" \in tpc /\ OnlyBridgeMoves(i)) =>
               BridgedWhen(HintOr(i, PunctuationIncomplete(segments[i].text)),
                           adjusted, i)
        /\ ("legacy" \in tpc /\ OnlyBridgeMoves(i)) =>
               BridgedWhen(HintOr(i, ~ is_sentence_ending(segments[i].text)),
                           adjusted_legacy, i)

\* A cue "Hello" hinted COMPLETE is not bridged over 3.5 s of silence.
C31_Witness ==
    /\ tpc = {"ai", "legacy"}
    /\ Len(segments) = 2
    /\ structure_analysis = <<"COMPLETE">>
    /\ segments[1].text = Chars5
    /\ OnlyBridgeMoves(1)
    /\ adjusted[1].end = Round3(segments[1].end)
    /\ adjusted_legacy[1].end = Round3(segments[1].end)
    /\ Round3(BridgeTarget(1)) # Round3(segments[1].end)

\* C32: the last cue of a list is neither clamped nor bridged by
\* utils/ai/timing.py: it lasts max(input duration, effective_min_duration)
\* with effective_min_duration = max(min_duration, len(text) / 15), so its
\* end is its start plus that duration, rounded to the millisecond.
C32_LastCue ==
    ("ai" \in tpc /\ segments # << >>) =>
        LET n == Len(segments)
            last == segments[n]
            effective_min_duration ==
                Max(config.min_duration, ReadingDuration(last.text))
        IN  /\ Len(adjusted) = n
            /\ adjusted[n].start = Round3(last.start)
            /\ adjusted[n].end =
                   Round3(last.start
                          + Max(last.end - last.start, effective_min_duration))

\* A last cue of 1.0 s whose text takes 2.0 s to read is extended to 2.0 s;
\* the cue before it is cut short of it.
C32_Witness ==
    /\ "ai" \in tpc
    /\ Len(segments) = 2
    /\ segments[2] = [start |-> Ms(9000), end |-> Ms(10000), text |-> Chars30]
    /\ adjusted[2].end = Ms(11000)
    /\ adjusted[1].end = Ms(8900)

\* The cue at position i of `list` ends no earlier than the input cue, to
\* the millisecond, unless the input end lies after
\* next.start - gap_settings.
NotCutShort(list, i) ==
    (i < Len(segments) =>
         segments[i].end <= segments[i + 1].start - config.gap_settings)
    => list[i].end >= Round3(segments[i].end)

\* C40: adjust_subtitle_timing never returns a cue that ends earlier than
\* its input end, except a cue whose input end lies after
\* next.start - gap_settings; in both engines.
C40_NeverCutsSpeech ==
    /\ "ai" \in tpc =>
           \A i \in 1..Len(adjusted) : NotCutShort(adjusted, i)
    /\ "legacy" \in tpc =>
           \A i \in 1..Len(adjusted_legacy) : NotCutShort(adjusted_legacy, i)

\* The cue at position i of `list` is legible, or is followed by a cue and
\* ends exactly gap_settings before that cue starts.
LegibleOrClamped(list, i) ==
    \/ list[i].end - list[i].start >=
           Min(config.min_duration, ReadingDuration(list[i].text))
    \/ /\ i < Len(list)
       /\ list[i].end = Round3(segments[i + 1].start - config.gap_settings)

\* C12: every adjusted cue lasts at least
\* min(configured minimum, len(text) / reading speed), except a cue with a
\* following cue whose end is exactly next.start - gap; in both engines.
C12_MinimumLegibility ==
    /\ "ai" \in tpc =>
           /\ Len(adjusted) = Len(segments)
           /\ \A i \in 1..Len(adjusted) : LegibleOrClamped(adjusted, i)
    /\ "legacy" \in tpc =>
           /\ Len(adjusted_legacy) = Len(segments)
           /\ \A i \in 1..Len(adjusted_legacy) :
                  LegibleOrClamped(adjusted_legacy, i)

\* A long text shown too briefly is extended as the last cue, and a cue
\* before it is clamped below the minimum.
C12_Witness ==
    /\ tpc = {"ai", "legacy"}
    /\ Len(segments) = 2
    /\ segments[2].text = Chars30
    /\ segments[2].end - segments[2].start < config.min_duration
    /\ adjusted[2].end - adjusted[2].start = ReadingDuration(Chars30)
    /\ adjusted_legacy[2].end - adjusted_legacy[2].start = ReadingDuration(Chars30)
    /\ adjusted[1].end - adjusted[1].start < config.min_duration
    /\ adjusted[1].end = adjusted[2].start - config.gap_settings

(***************************************************************************)
(* The translation pass with DeepSeek: _translate_with_deepseek and        *)
(* _translate_batch_deepseek of utils/ai/translator.py ("ai"), and         *)
(* translate_with_deepseek and translate_batch_with_deepseek of the older  *)
(* utils/translator_deepseek.py ("legacy").  A text is a string.  The      *)
(* backend's answer is the text that is parsed: the draft, or in premium   *)
(* mode the refined draft.                                                 *)
(***************************************************************************)
batch_size == 8

MaxSubs == 17

\* The texts of the items before translation, by index.
SrcText ==
    <<"s1", "s2", "s3", "s4", "s5", "s6", "s7", "s8", "s9", "s10",
      "s11", "s12", "s13", "s14", "s15", "s16", "s17", "s18", "s19", "s20">>

\* What the backend writes as the translation on its j-th numbered line.
TrText == <<"t1", "t2", "t3", "t4", "t5", "t6", "t7", "t8", "t9", "t10">>

\* str.upper(), as far as the comparison with the skip sentinels goes.
Upper(text) ==
    CASE text = "skip"   -> "SKIP"
      [] text = "[skip]" -> "[SKIP]"
      [] OTHER           -> text

SkipSentinels == {"[SKIP]", "SKIP"}

\* A line of the answer that matches ^\d+[\.\)\s]+(.*) with `text` as the
\* stripped group, and a line that does not match.
Numbered(text) == [numbered |-> TRUE, text |-> text]
Chatter == [numbered |-> FALSE, text |-> "Here is the translation:"]

\* An answer with k translated lines.
FullResponse(k) == [j \in 1..k |-> Numbered(TrText[j])]

\* The answers to a batch of n lines: too few lines, all n, one too many;
\* all n with the first or the last one a skip sentinel or empty; all n
\* after a line of chatter.
Responses(n) ==
    IF n = 0 THEN {<< >>}
    ELSE {FullResponse(k) : k \in 0..(n + 1)}
         \cup {[FullResponse(n) EXCEPT ![p] = Numbered(marker)] :
                  p \in {1, n}, marker \in {"[SKIP]", "skip", ""}}
         \cup {<<Chatter>> \o FullResponse(n)}

\* What a backend call comes to: an exception, or an answer.
Outcomes(n) ==
    {[fails |-> TRUE, lines |-> << >>]}
    \cup {[fails |-> FALSE, lines |-> r] : r \in Responses(n)}

AllOutcomes == UNION {Outcomes(n) : n \in 1..batch_size}

IsNumbered(line) == line.numbered

\* utils/ai/translator.py 291-303: a skipped line is kept as "".
ParseTranslations(lines) ==
    LET matched == SelectSeq(lines, IsNumbered)
    IN  [j \in 1..Len(matched) |->
            IF Upper(matched[j].text) \in SkipSentinels THEN ""
            ELSE matched[j].text]

\* A batch call that fills the positions without a line with empty texts.
translate_batch_deepseek_filled(texts, outcome) ==
    IF outcome.fails THEN texts
    ELSE IF Len(ParseTranslations(outcome.lines)) = 0 THEN texts
    ELSE [j \in 1..Max(Len(texts), Len(ParseTranslations(outcome.lines))) |->
             IF j <= Len(ParseTranslations(outcome.lines))
             THEN ParseTranslations(outcome.lines)[j]
             ELSE ""]

\* A batch call that answers a failure with empty translations.
translate_batch_deepseek_blank(texts, outcome) ==
    IF outcome.fails THEN [j \in 1..Len(texts) |-> ""]
    ELSE IF Len(ParseTranslations(outcome.lines)) = 0 THEN texts
    ELSE ParseTranslations(outcome.lines)

\* utils/ai/translator.py 224-310.
translate_batch_deepseek(texts, outcome) ==
    IF outcome.fails THEN texts
    ELSE IF Len(ParseTranslations(outcome.lines)) = 0 THEN texts
    ELSE ParseTranslations(outcome.lines)

IsTranslation(line) ==
    line.numbered /\ Upper(line.text) \notin SkipSentinels /\ line.text # ""

\* utils/translator_deepseek.py 113-136: skipped and empty lines are dropped.
LegacyParseTranslations(lines) ==
    LET kept == SelectSeq(lines, IsTranslation)
    IN  [j \in 1..Len(kept) |-> kept[j].text]

\* utils/translator_deepseek.py 146-154.
PadOrTruncate(translations, texts) ==
    IF Len(translations) < Len(texts)
    THEN translations \o SubSeq(texts, Len(translations) + 1, Len(texts))
    ELSE SubSeq(translations, 1, Len(texts))

\* utils/translator_deepseek.py 27-158.
translate_batch_with_deepseek(texts, outcome) ==
    IF outcome.fails THEN texts
    ELSE IF Len(LegacyParseTranslations(outcome.lines)) = 0 THEN texts
    ELSE PadOrTruncate(LegacyParseTranslations(outcome.lines), texts)

BatchCall(i, texts, outcome) ==
    IF i = "ai" THEN translate_batch_deepseek(texts, outcome)
    ELSE translate_batch_with_deepseek(texts, outcome)

\* batch = subs[i:i + batch_size], as the positions lo..hi of the list.
BatchLo == t_i + 1
BatchHi == Min(t_i + batch_size, Len(t_subs))
BatchTexts == [j \in 1..(BatchHi - BatchLo + 1) |-> t_subs[BatchLo + j - 1].text]

\* The sizes of the list: none, one item, one full batch, one item more,
\* and MaxSubs.
NumbersOfSubs == {0, 1, batch_size, batch_size + 1, MaxSubs}

InitTranslator ==
    /\ t_impl \in {"ai", "legacy"}
    /\ \E n \in NumbersOfSubs :
           t_subs = [k \in 1..n |->
                        [index |-> k, start |-> Ms(1000 * k),
                         end |-> Ms(1000 * k + 900), text |-> SrcText[k]]]
    /\ t_original = t_subs
    /\ t_i = 0
    /\ t_context = ""
    /\ t_calls = << >>
    /\ t_pc = "loop"
    /\ PipelineIdle
    /\ TimingIdle
    /\ ShieldIdle
    /\ StoreIdle
    /\ AnalyzerIdle

\* One iteration of the loop (translator.py 171-200): the batch call, then
\* the translations are put into the items of the batch.
TranslateBatch(outcome) ==
    /\ t_pc = "loop"
    /\ t_i < Len(t_subs)
    /\ outcome \in Outcomes(Len(BatchTexts))
    /\ LET translations == BatchCall(t_impl, BatchTexts, outcome)
       IN  /\ t_subs' =
                  [k \in 1..Len(t_subs) |->
                      IF k \in BatchLo..BatchHi
                         /\ k - BatchLo + 1 <= Len(translations)
                      THEN [t_subs[k] EXCEPT !.text = translations[k - BatchLo + 1]]
                      ELSE t_subs[k]]
           /\ t_context' = IF translations # << >>
                           THEN translations[Len(translations)]
                           ELSE t_context
           /\ t_calls' = Append(t_calls,
                                [lo |-> BatchLo, texts |-> BatchTexts,
                                 prev_context |-> t_context,
                                 outcome |-> outcome,
                                 returned |-> translations])
    /\ t_i' = t_i + batch_size
    /\ UNCHANGED <<exceptTranslator, t_impl, t_original, t_pc>>

\* The loop ends; the translated items go on to the review.
TranslationLoopEnds ==
    /\ t_pc = "loop"
    /\ t_i >= Len(t_subs)
    /\ t_pc' = "done"
    /\ UNCHANGED <<exceptTranslator, t_impl, t_subs, t_original, t_i, t_context,
                   t_calls>>

NextTranslator ==
    \/ \E outcome \in AllOutcomes : TranslateBatch(outcome)
    \/ TranslationLoopEnds

SpecTranslator == InitTranslator /\ [][NextTranslator]_vars

(***************************************************************************)
(* Claims about the translation pass.                                      *)
(***************************************************************************)
\* The call returned as many lines as were submitted; an answer of k
\* translated lines gives these k lines (at most the lines submitted),
\* then the submitted texts of the positions after k.
LengthReconciled(call) ==
    /\ Len(call.returned) = Len(call.texts)
    /\ \A k \in 0..(Len(call.texts) + 1) :
           (~ call.outcome.fails /\ call.outcome.lines = FullResponse(k))
           => \A j \in 1..Len(call.texts) :
                  call.returned[j] = IF j <= k THEN TrText[j] ELSE call.texts[j]

\* C13: for every backend answer the batch translation call returns exactly
\* as many lines as were submitted, the tail padded with the original texts
\* when the backend returned fewer lines, the surplus cut when it returned
\* more; in utils/ai/translator.py and utils/translator_deepseek.py alike.
C13_BatchLength ==
    \A c \in 1..Len(t_calls) : LengthReconciled(t_calls[c])

\* The same property of utils/translator_deepseek.py alone.
C13_BatchLengthLegacy ==
    t_impl = "legacy" => \A c \in 1..Len(t_calls) : LengthReconciled(t_calls[c])

\* The positions of the batch of a call.
BatchOf(call) == call.lo..(call.lo + Len(call.texts) - 1)

NoLineFor(call, p) ==
    \/ call.outcome.fails
    \/ \E k \in 0..(p - 1) : call.outcome.lines = FullResponse(k)

\* C37: whatever the backend answers, the translation pass keeps the number
\* and the order of the units and the index, start and end of each; only
\* the text may change, and a unit at a position for which the backend
\* returned no line keeps its original text.
C37_TranslatorFrame ==
    /\ Len(t_subs) = Len(t_original)
    /\ \A k \in 1..Len(t_subs) :
           [t_subs[k] EXCEPT !.text = t_original[k].text] = t_original[k]
    /\ \A c \in 1..Len(t_calls) :
           \A p \in 1..Len(t_calls[c].texts) :
               NoLineFor(t_calls[c], p)
               => t_subs[t_calls[c].lo + p - 1] = t_original[t_calls[c].lo + p - 1]

\* 17 units: the first batch is translated in full, the second gets one
\* line for its eight units, the call of the third fails.
C37_Witness ==
    /\ t_impl = "ai"
    /\ t_pc = "done"
    /\ Len(t_subs) = MaxSubs
    /\ Len(t_calls) = 3
    /\ t_calls[1].outcome.lines = FullResponse(batch_size)
    /\ t_calls[2].outcome.lines = FullResponse(1)
    /\ t_calls[3].outcome.fails
    /\ t_subs[1] = [t_original[1] EXCEPT !.text = TrText[1]]
    /\ t_subs[batch_size + 1].text = TrText[1]
    /\ t_subs[batch_size + 2] = t_original[batch_size + 2]
    /\ t_subs[MaxSubs] = t_original[MaxSubs]

\* when every unit of the batch is empty.
LastNonEmptyLine(call) ==
    LET filled == {k \in BatchOf(call) : t_subs[k].text # ""}
    IN  IF filled = {} THEN ""
        ELSE t_subs[CHOOSE k \in filled : \A m \in filled : m <= k].text

\* C27: the first batch is sent with an empty prev_context, and every later
\* batch with the last non-empty translated line of the batch just before
\* it, whatever the backend answered to that batch (skip markers, too few
\* or too many lines, a failure).
C27_SlidingContext ==
    \A c \in 1..Len(t_calls) :
        t_calls[c].prev_context =
            IF c = 1 THEN "" ELSE LastNonEmptyLine(t_calls[c - 1])

\* The same property of utils/translator_deepseek.py alone.
C27_SlidingContextLegacy == t_impl = "legacy" => C27_SlidingContext

\* The backend answered `call` with one numbered line per unit, each a
\* translation or a skip sentinel.
LinePerUnit(call) ==
    /\ ~ call.outcome.fails
    /\ Len(call.outcome.lines) = Len(call.texts)
    /\ \A p \in 1..Len(call.texts) :
           call.outcome.lines[p].numbered /\ call.outcome.lines[p].text # ""

\* C28: a line of the answer that carries the skip sentinel gives the unit
\* at its position an empty text; the line is not dropped, so every other
\* line of the answer is the text of the unit at its own position.
C28_SkipKeepsAlignment ==
    \A c \in 1..Len(t_calls) :
        LinePerUnit(t_calls[c]) =>
            \A p \in 1..Len(t_calls[c].texts) :
                t_subs[t_calls[c].lo + p - 1].text =
                    IF Upper(t_calls[c].outcome.lines[p].text) \in SkipSentinels
                    THEN ""
                    ELSE t_calls[c].outcome.lines[p].text

\* The same property of utils/ai/translator.py alone.
C28_SkipKeepsAlignmentAi == t_impl = "ai" => C28_SkipKeepsAlignment

(***************************************************************************)
(* The review of the translation: utils/subtitle_shield.py                 *)
(* subtitle_shield_review.  The review backend is a collaborator: for each *)
(* batch it raises (the request fails, or the braces of the answer hold no *)
(* valid JSON) or answers with a list of actions; an answer without braces *)
(* or without "actions" is the empty list.  An action is the record of the *)
(* values read from it at 260-267, each missing key at its default.        *)
(***************************************************************************)
shield_batch_size == 50

MaxActions == 2

\* str.lower() of the action values the backend sends.
Lower(text) ==
    CASE text = "DELETE" -> "delete"
      [] text = "EDIT"   -> "edit"
      [] text = "KEEP"   -> "keep"
      [] OTHER           -> text

\* The item number k of a subtitle list as the translator leaves it.
ReviewedSub(k, text) ==
    [index |-> k, start |-> Ms(1000 * k), end |-> Ms(1000 * k + 900),
     text |-> text]

\* The early return for missing originals alone.
SkippedWithoutOriginals(subs, original_subs) ==
    IF original_subs = << >> THEN "Skipped (no original text)" ELSE ""

\* The two early returns (50-65): nothing to compare with, or a first item
\* that the translation left as it was.
SkippedSummary(subs, original_subs) ==
    IF original_subs = << >>
    THEN "Skipped (no original text)"
    ELSE IF Len(subs) > 0 /\ original_subs[1].text = subs[1].text
         THEN "Skipped (identical text)"
         ELSE ""

TotalBatches(subs) ==
    (Len(subs) + shield_batch_size - 1) \div shield_batch_size

\* The comparison list with the neighbours taken from the batch alone.
ComparisonListWithinBatch(subs, original_subs, start_idx) ==
    LET end_idx == Min(start_idx + shield_batch_size, Len(subs))
        OriginalOr(k, missing) ==
            IF k <= Len(original_subs) THEN original_subs[k].text ELSE missing
        Neighbour(k) ==
            [original |-> OriginalOr(k, ""), translation |-> subs[k].text]
    IN  [j \in 1..(end_idx - start_idx) |->
            LET k == start_idx + j
            IN  [number      |-> k,
                 original    |-> OriginalOr(k, "[MISSING]"),
                 translation |-> subs[k].text,
                 previous    |-> IF k > start_idx + 1 THEN Neighbour(k - 1) ELSE None,
                 next        |-> IF k < end_idx THEN Neighbour(k + 1) ELSE None]]

\* The comparison list without the item before and the item after.
ComparisonListWithoutNeighbours(subs, original_subs, start_idx) ==
    LET end_idx == Min(start_idx + shield_batch_size, Len(subs))
    IN  [j \in 1..(end_idx - start_idx) |->
            LET k == start_idx + j
            IN  [number      |-> k,
                 original    |-> IF k <= Len(original_subs)
                                 THEN original_subs[k].text ELSE "[MISSING]",
                 translation |-> subs[k].text,
                 previous    |-> None,
                 next        |-> None]]

\* comparison_list of the batch that starts after item start_idx (113-141):
\* each item with its original and, where there is one, the item before and
\* the item after it.
ComparisonList(subs, original_subs, start_idx) ==
    LET end_idx == Min(start_idx + shield_batch_size, Len(subs))
        OriginalOr(k, missing) ==
            IF k <= Len(original_subs) THEN original_subs[k].text ELSE missing
        Neighbour(k) ==
            [original |-> OriginalOr(k, ""), translation |-> subs[k].text]
    IN  [j \in 1..(end_idx - start_idx) |->
            LET k == start_idx + j
            IN  [number      |-> k,
                 original    |-> OriginalOr(k, "[MISSING]"),
                 translation |-> subs[k].text,
                 previous    |-> IF k > 1 THEN Neighbour(k - 1) ELSE None,
                 next        |-> IF k < Len(subs) THEN Neighbour(k + 1) ELSE None]]

\* The pass with an edit applied even when it brings no corrected text.
ApplyActionEditsBlank(st, item) ==
    LET idx == item.index - 1
        inRange == 0 <= idx /\ idx < Len(st.subs)
    IN  IF item.confidence < 80
        THEN st
        ELSE IF Lower(item.action) = "edit" /\ inRange
        THEN [st EXCEPT !.subs[idx + 1].text = item.corrected,
                        !.edit_count = @ + 1]
        ELSE IF Lower(item.action) = "delete" /\ inRange
        THEN [st EXCEPT !.subs[idx + 1].text = "[DELETE_MARKER]",
                        !.delete_count = @ + 1]
        ELSE st

\* The pass without the check of the confidence.
ApplyActionAnyConfidence(st, item) ==
    LET idx == item.index - 1
        inRange == 0 <= idx /\ idx < Len(st.subs)
    IN  IF Lower(item.action) = "edit" /\ item.corrected # "" /\ inRange
        THEN [st EXCEPT !.subs[idx + 1].text = item.corrected,
                        !.edit_count = @ + 1]
        ELSE IF Lower(item.action) = "delete" /\ inRange
        THEN [st EXCEPT !.subs[idx + 1].text = "[DELETE_MARKER]",
                        !.delete_count = @ + 1]
        ELSE st

\* One pass of the loop over the actions (260-297) on the list and the two
\* counters.
ApplyAction(st, item) ==
    LET idx == item.index - 1
        inRange == 0 <= idx /\ idx < Len(st.subs)
    IN  IF item.confidence < 80
        THEN st
        ELSE IF Lower(item.action) = "edit" /\ item.corrected # "" /\ inRange
        THEN [st EXCEPT !.subs[idx + 1].text = item.corrected,
                        !.edit_count = @ + 1]
        ELSE IF Lower(item.action) = "delete" /\ inRange
        THEN [st EXCEPT !.subs[idx + 1].text = "[DELETE_MARKER]",
                        !.delete_count = @ + 1]
        ELSE st

RECURSIVE ApplyActions(_, _)
ApplyActions(st, actions) ==
    IF actions = << >>
    THEN st
    ELSE ApplyActions(ApplyAction(st, Head(actions)), Tail(actions))

\* What the review does once every batch is answered (243-357): the items as
\* edited in place, the list returned and the report (the average
\* confidence and the version aside).
ReviewOutcome(subs, actions) ==
    LET st == ApplyActions([subs |-> subs, edit_count |-> 0, delete_count |-> 0],
                           actions)
        Unmarked(sub) == sub.text # "[DELETE_MARKER]"
    IN  [in_place |-> st.subs,
         subs     |-> IF st.delete_count > 0
                      THEN SelectSeq(st.subs, Unmarked)
                      ELSE st.subs,
         report   |->
             [total_reviewed |-> Len(subs),
              total_issues   |-> Len(actions),
              actions        |-> actions,
              statistics     |->
                  [keep   |-> Len(subs) - st.edit_count - st.delete_count,
                   edit   |-> st.edit_count,
                   delete |-> st.delete_count]]]

\* The lists handed to the review: none, one item, and one item more than a
\* batch; the first item translated or left as it was; the originals
\* missing or complete.
ReviewSizes == {0, 1, shield_batch_size + 1}

TranslatedLists ==
    {[k \in 1..n |->
         ReviewedSub(k, IF k = 1 /\ ~ first
                        THEN "s" \o ToString(k)
                        ELSE "t" \o ToString(k))] :
        n \in ReviewSizes, first \in BOOLEAN}

OriginalLists ==
    {[k \in 1..n |-> ReviewedSub(k, "s" \o ToString(k))] :
        n \in ReviewSizes}

\* The actions the backend may send: a corrected text comes with an edit.
Actions ==
    [index      : {0, 1, 2},
     action     : {"keep", "edit", "delete", "DELETE", "merge"},
     corrected  : {""},
     confidence : {79, 80}]
    \cup [index      : {0, 1, 2},
          action     : {"edit"},
          corrected  : {"fixed"},
          confidence : {79, 80}]

InitShield ==
    /\ s_subs \in TranslatedLists
    /\ s_entry = s_subs
    /\ s_original \in OriginalLists
    /\ Len(s_original) \in {0, Len(s_subs)}
    /\ s_batch = 0
    /\ s_all_actions = << >>
    /\ s_calls = << >>
    /\ s_returned = None
    /\ s_pc = "review"
    /\ PipelineIdle
    /\ TimingIdle
    /\ TranslatorIdle
    /\ StoreIdle
    /\ AnalyzerIdle

\* An early return: no request is made.
ReviewSkipped ==
    /\ s_pc = "review"
    /\ SkippedSummary(s_subs, s_original) # ""
    /\ s_returned' =
           [subs   |-> s_subs,
            report |-> [actions |-> << >>,
                        summary |-> SkippedSummary(s_subs, s_original)]]
    /\ s_pc' = "returned"
    /\ UNCHANGED <<exceptShield, s_subs, s_entry, s_original, s_batch,
                   s_all_actions, s_calls>>

\* One iteration of the batch loop (113-238): the request, then the answer
\* joins all_actions, or the exception ends the review (359-362).
ReviewBatch(fails, actions) ==
    /\ s_pc = "review"
    /\ SkippedSummary(s_subs, s_original) = ""
    /\ s_batch < TotalBatches(s_subs)
    /\ Len(s_all_actions) + Len(actions) <= MaxActions
    /\ fails => actions = << >>
    /\ s_calls' =
           Append(s_calls,
                  [start_idx       |-> s_batch * shield_batch_size,
                   comparison_list |->
                       ComparisonList(s_subs, s_original,
                                      s_batch * shield_batch_size),
                   fails           |-> fails])
    /\ IF fails
       THEN /\ s_returned' =
                   [subs   |-> s_subs,
                    report |-> [anomalies |-> << >>,
                                summary   |-> "Error during analysis"]]
            /\ s_pc' = "returned"
            /\ UNCHANGED <<s_batch, s_all_actions>>
       ELSE /\ s_all_actions' = s_all_actions \o actions
            /\ s_batch' = s_batch + 1
            /\ UNCHANGED <<s_returned, s_pc>>
    /\ UNCHANGED <<exceptShield, s_subs, s_entry, s_original>>

\* Every batch is answered: the actions are applied and the review returns.
ReviewApplies ==
    /\ s_pc = "review"
    /\ SkippedSummary(s_subs, s_original) = ""
    /\ s_batch = TotalBatches(s_subs)
    /\ LET outcome == ReviewOutcome(s_subs, s_all_actions)
       IN  /\ s_subs' = outcome.in_place
           /\ s_returned' = [subs |-> outcome.subs, report |-> outcome.report]
    /\ s_pc' = "returned"
    /\ UNCHANGED <<exceptShield, s_entry, s_original, s_batch, s_all_actions,
                   s_calls>>

NextShield ==
    \/ ReviewSkipped
    \/ \E fails \in BOOLEAN, n \in 0..(MaxActions - Len(s_all_actions)) :
           \E actions \in [1..n -> Actions] : ReviewBatch(fails, actions)
    \/ ReviewApplies

SpecShield == InitShield /\ [][NextShield]_vars

(***************************************************************************)
(* Claims about the review.                                                *)
(***************************************************************************)
\* The review went through every batch and applied the actions.
ReviewApplied ==
    s_pc = "returned" /\ "statistics" \in DOMAIN s_returned.report

Confident(item) == item.confidence >= 80

\* C15: an action whose confidence is below 80 changes no unit, neither its
\* text nor its presence in the result, whatever its action and index: the
\* result is that of the actions with confidence >= 80 alone, and a unit
\* that only actions below 80 point at is returned as it came in.
C15_ConfidenceGate ==
    ReviewApplied =>
        /\ s_returned.subs =
               ReviewOutcome(s_entry, SelectSeq(s_all_actions, Confident)).subs
        /\ \A k \in 1..Len(s_entry) :
               (\A a \in 1..Len(s_all_actions) :
                    s_all_actions[a].index = k => ~ Confident(s_all_actions[a]))
               => /\ s_subs[k] = s_entry[k]
                  /\ \E j \in 1..Len(s_returned.subs) :
                         s_returned.subs[j] = s_entry[k]

C15_Witness ==
    /\ ReviewApplied
    /\ Len(s_entry) = shield_batch_size + 1
    /\ s_all_actions =
           <<[index |-> 1, action |-> "delete", corrected |-> "",
              confidence |-> 79],
             [index |-> 2, action |-> "edit", corrected |-> "fixed",
              confidence |-> 80]>>
    /\ Len(s_returned.subs) = Len(s_entry)
    /\ s_returned.subs[1] = s_entry[1]
    /\ s_returned.subs[2].text = "fixed"

\* The units a DELETE that was applied points at: confidence >= 80 and index
\* in range.
DeleteTargets ==
    {s_all_actions[a].index : a \in
        {a \in 1..Len(s_all_actions) :
            /\ Confident(s_all_actions[a])
            /\ Lower(s_all_actions[a].action) = "delete"
            /\ s_all_actions[a].index \in 1..Len(s_entry)}}

\* C16: for every list of actions of the backend the sequence returned is
\* the input sequence, in its order, less the units an applied DELETE
\* (confidence >= 80, index in range) points at: each of these is gone and
\* no other unit is.
C16_ShieldResultSet ==
    ReviewApplied =>
        LET Kept(sub) == sub.index \notin DeleteTargets
            kept == SelectSeq(s_entry, Kept)
        IN  [j \in 1..Len(s_returned.subs) |-> s_returned.subs[j].index]
            = [j \in 1..Len(kept) |-> kept[j].index]

\* C25: when the text of the first original unit equals the text of the
\* first translated unit the review sends no request and returns the list
\* it was given, unchanged, with an empty list of actions.
C25_ShieldPrecondition ==
    (s_pc # "off" /\ s_original # << >> /\ s_entry # << >>
     /\ s_original[1].text = s_entry[1].text)
    => /\ s_calls = << >>
       /\ s_subs = s_entry
       /\ s_pc = "returned" =>
              /\ s_returned.subs = s_entry
              /\ s_returned.report.actions = << >>

C25_Witness ==
    /\ s_pc = "returned"
    /\ Len(s_entry) = shield_batch_size + 1
    /\ Len(s_original) = Len(s_entry)
    /\ s_original[1].text = s_entry[1].text
    /\ s_original[2].text # s_entry[2].text
    /\ s_calls = << >>
    /\ s_returned.report.summary = "Skipped (identical text)"

\* The request of the call at position c shows the translated list as it was
\* on entry: each item of the batch with its text, the text of the item
\* before it and the text of the item after it.
RequestFromEntry(c) ==
    LET call == s_calls[c]
        list == call.comparison_list
    IN  /\ call.start_idx = (c - 1) * shield_batch_size
        /\ Len(list) = Min(shield_batch_size, Len(s_entry) - call.start_idx)
        /\ \A j \in 1..Len(list) :
               LET k == call.start_idx + j
               IN  /\ list[j].number = k
                   /\ list[j].translation = s_entry[k].text
                   /\ IF k > 1
                      THEN /\ list[j].previous # None
                           /\ list[j].previous.translation = s_entry[k - 1].text
                      ELSE list[j].previous = None
                   /\ IF k < Len(s_entry)
                      THEN /\ list[j].next # None
                           /\ list[j].next.translation = s_entry[k + 1].text
                      ELSE list[j].next = None

\* C26: while the batches are processed no unit is removed or given another
\* text: every request, the context before and after each item included, is
\* built from the translated list as it was on entry, and the list differs
\* from the one on entry only once the last batch has been answered.
C26_DeferredMutation ==
    /\ \A c \in 1..Len(s_calls) : RequestFromEntry(c)
    /\ s_pc = "review" => s_subs = s_entry
    /\ s_subs # s_entry =>
           /\ s_pc = "returned"
           /\ Len(s_calls) = TotalBatches(s_entry)
           /\ \A c \in 1..Len(s_calls) : ~ s_calls[c].fails

\* The first batch asked for an edit of item 2 and a deletion of item 1; the
\* second batch was still sent with item 50 as it came in, and the list was
\* changed after it.
C26_Witness ==
    /\ s_pc = "returned"
    /\ Len(s_calls) = 2
    /\ Len(s_all_actions) = 2
    /\ s_all_actions[1].index = 2
    /\ s_all_actions[2].index = 1
    /\ s_calls[2].comparison_list[1].previous.translation = "t50"
    /\ s_calls[1].comparison_list[1].next.translation = "t2"
    /\ s_subs[2].text = "fixed"
    /\ Len(s_returned.subs) = shield_batch_size

\* The positions in the list of actions of the edits and deletions that are
\* applied to unit k: confidence >= 80, and a corrected text for an edit.
Touching(k) ==
    {a \in 1..Len(s_all_actions) :
        /\ s_all_actions[a].index = k
        /\ Confident(s_all_actions[a])
        /\ \/ Lower(s_all_actions[a].action) = "delete"
           \/ /\ Lower(s_all_actions[a].action) = "edit"
              /\ s_all_actions[a].corrected # ""}

LastTouching(k) == CHOOSE a \in Touching(k) : \A b \in Touching(k) : b <= a

\* C33: an applied EDIT with a corrected text replaces the text of the unit
\* at its index and nothing else: the times of that unit and every other
\* unit stay as they were; an EDIT without corrected text, an unknown action
\* and an action whose index is outside 1..n change nothing.
C33_EditAndKeep ==
    ReviewApplied =>
        /\ Len(s_subs) = Len(s_entry)
        /\ \A k \in 1..Len(s_entry) :
               IF Touching(k) = {}
               THEN s_subs[k] = s_entry[k]
               ELSE Lower(s_all_actions[LastTouching(k)].action) = "edit"
                    => s_subs[k] =
                           [s_entry[k] EXCEPT
                               !.text = s_all_actions[LastTouching(k)].corrected]
        /\ (\A k \in 1..Len(s_entry) :
               \A a \in Touching(k) : Lower(s_all_actions[a].action) = "edit")
           => s_returned.subs = s_subs

\* One unit: an edit without text, then an action that points past the
\* list, leave it as it was.
C33_WitnessKeep ==
    /\ ReviewApplied
    /\ Len(s_entry) = 1
    /\ s_all_actions =
           <<[index |-> 1, action |-> "edit", corrected |-> "",
              confidence |-> 80],
             [index |-> 2, action |-> "edit", corrected |-> "fixed",
              confidence |-> 80]>>
    /\ s_returned.subs = s_entry

\* Of 51 units the second is edited: its text alone changes.
C33_Witness ==
    /\ ReviewApplied
    /\ Len(s_entry) = shield_batch_size + 1
    /\ Len(s_all_actions) = 1
    /\ s_all_actions[1] = [index |-> 2, action |-> "edit",
                           corrected |-> "fixed", confidence |-> 80]
    /\ s_returned.subs[2] = [s_entry[2] EXCEPT !.text = "fixed"]
    /\ s_returned.subs[1] = s_entry[1]

\* The original and the translation of unit k as the review was given them.
PairOf(k) == [original |-> s_original[k].text, translation |-> s_entry[k].text]

\* C35: for every unit under review the request of its batch carries the
\* original and the translation of the unit before it, unless it is the
\* first unit of the whole list, and of the unit after it, unless it is the
\* last unit of the whole list, also when that neighbour is in another
\* batch; and a review that went through every batch has put every unit
\* under review.
C35_ReviewContextWindow ==
    /\ \A c \in 1..Len(s_calls) :
           \A j \in 1..Len(s_calls[c].comparison_list) :
               LET item == s_calls[c].comparison_list[j]
                   k == item.number
               IN  /\ k \in 1..Len(s_entry)
                   /\ item.original = PairOf(k).original
                   /\ item.translation = PairOf(k).translation
                   /\ item.previous = IF k > 1 THEN PairOf(k - 1) ELSE None
                   /\ item.next = IF k < Len(s_entry) THEN PairOf(k + 1) ELSE None
    /\ ReviewApplied =>
           \A k \in 1..Len(s_entry) :
               \E c \in 1..Len(s_calls) :
                   \E j \in 1..Len(s_calls[c].comparison_list) :
                       s_calls[c].comparison_list[j].number = k

\* 51 units in two batches: unit 50 is sent with unit 51 as its next pair,
\* unit 51 with unit 50 as its previous pair.
C35_Witness ==
    /\ Len(s_entry) = shield_batch_size + 1
    /\ Len(s_calls) = 2
    /\ s_calls[1].comparison_list[shield_batch_size].next =
           [original |-> "s51", translation |-> "t51"]
    /\ s_calls[2].comparison_list[1].previous =
           [original |-> "s50", translation |-> "t50"]
    /\ s_calls[2].comparison_list[1].next = None

\* C38: for every list of actions of the backend, several on one index
\* included, the counts of the report satisfy 0 <= keep <= total_reviewed
\* and keep + edit + delete = total_reviewed, and delete is the number of
\* units removed, so that the quality score keep / total_reviewed * 100 lies
\* between 0 and 100.
C38_StatisticsInRange ==
    ReviewApplied =>
        LET report == s_returned.report
            statistics == report.statistics
        IN  /\ report.total_reviewed = Len(s_entry)
            /\ statistics.keep >= 0
            /\ statistics.keep <= report.total_reviewed
            /\ statistics.keep + statistics.edit + statistics.delete
                   = report.total_reviewed
            /\ statistics.delete = Len(s_entry) - Len(s_returned.subs)

\* C17: when the backend fails on one batch only that batch goes unreviewed:
\* every batch is still submitted, the actions the other batches returned
\* are applied, and the review returns the resulting units.
C17_ReviewFailureIsolation ==
    (s_pc = "returned" /\ s_calls # << >>) =>
        /\ Len(s_calls) = TotalBatches(s_entry)
        /\ s_returned.subs = ReviewOutcome(s_entry, s_all_actions).subs

(***************************************************************************)
(* The checkpoint store by itself: utils/checkpoint.py CheckpointManager,  *)
(* called for several videos in any order.  A process that dies inside     *)
(* save leaves the file as open(..., 'w') made it, which is how a file     *)
(* that is not valid JSON comes to be there.                               *)
(***************************************************************************)
VideoPaths == {"clip.mp4", "videos/clip.mkv", "talk.mp4", "/home/u/talk.mp4"}

\* The current working directory of the process that makes a call.
WorkingDirs == {"/home/u", "/srv"}

\* Path(video_path).stem (19-20), the name of the checkpoint file (32).
Stem(video_path) ==
    CASE video_path = "clip.mp4"        -> "clip"
      [] video_path = "videos/clip.mkv" -> "clip"
      [] video_path = "talk.mp4"        -> "talk"
      [] video_path = "/home/u/talk.mp4" -> "talk"

\* A checkpoint file named from the directory the process runs in.
checkpoint_file_in_cwd(video_path, cwd) ==
    cwd \o "/.checkpoints/" \o Stem(video_path) \o ".json"

\* self.checkpoint_file (23-32): the stem in .checkpoints of the directory
\* above the module's own, wherever the process runs.
checkpoint_file(video_path, cwd) ==
    "src/.checkpoints/" \o Stem(video_path) \o ".json"

CheckpointFiles ==
    {checkpoint_file(video_path, cwd) :
        video_path \in VideoPaths, cwd \in WorkingDirs}

Stems == {Stem(video_path) : video_path \in VideoPaths}

StoreSteps == {"transcription", "translation"}

StoreData == {"d1", "d2"}

\* An outcome of a call: the value returned, or the exception raised.
Returns(value) == [raises |-> FALSE, value |-> value]

\* json.load(f) on the file (65).
JsonLoad(f) ==
    IF f.kind = "json"
    THEN Returns([step |-> f.step, data |-> f.data])
    ELSE Raise("JSONDecodeError", {})

\* load without its try block.
load_uncaught(f) ==
    IF f.kind = "absent" THEN Returns(None) ELSE JsonLoad(f)

\* CheckpointManager.load (53-67).
load(f) ==
    IF f.kind = "absent"
    THEN Returns(None)
    ELSE IF JsonLoad(f).raises THEN Returns(None) ELSE JsonLoad(f)

\* Path.unlink() (76).
Unlink(f) ==
    IF f.kind = "absent"
    THEN Raise("FileNotFoundError", {})
    ELSE Returns(NoFile)

\* clear without the check that the file exists.
clear_unchecked(f) == Unlink(f)

\* CheckpointManager.clear (73-76): the outcome, its value the file left.
clear(f) ==
    IF f.kind # "absent" THEN Unlink(f) ELSE Returns(f)

Call(op, video_path, cwd, step, data, outcome) ==
    [op |-> op, video_path |-> video_path, cwd |-> cwd, step |-> step,
     data |-> data, outcome |-> outcome]

InitStore ==
    /\ c_files = [f \in CheckpointFiles |-> NoFile]
    /\ c_before = c_files
    /\ c_latest = [name \in Stems |-> None]
    /\ c_saver = [name \in Stems |-> None]
    /\ c_last = None
    /\ c_pc = "on"
    /\ PipelineIdle
    /\ TimingIdle
    /\ TranslatorIdle
    /\ ShieldIdle
    /\ AnalyzerIdle

\* CheckpointManager(video_path).save(step, data) (34-51) in a process
\* whose working directory is cwd.
StoreSave(video_path, cwd, step, data) ==
    /\ c_pc = "on"
    /\ LET f == checkpoint_file(video_path, cwd)
       IN  c_files' =
               [c_files EXCEPT ![f] = SaveWritten(SaveOpened(c_files[f]), step, data)]
    /\ c_latest' =
           [c_latest EXCEPT ![Stem(video_path)] = [step |-> step, data |-> data]]
    /\ c_saver' =
           [c_saver EXCEPT
               ![Stem(video_path)] = [video_path |-> video_path, cwd |-> cwd]]
    /\ c_before' = c_files
    /\ c_last' = Call("save", video_path, cwd, step, data, Returns(None))
    /\ UNCHANGED <<exceptStore, c_pc>>

\* The process dies in save between open(..., 'w') (50) and the end of
\* json.dump (51).
StoreSaveInterrupted(video_path, cwd, step, data) ==
    /\ c_pc = "on"
    /\ LET f == checkpoint_file(video_path, cwd)
       IN  c_files' = [c_files EXCEPT ![f] = SaveOpened(c_files[f])]
    /\ c_latest' = [c_latest EXCEPT ![Stem(video_path)] = [unparsable |-> TRUE]]
    /\ c_saver' = [c_saver EXCEPT ![Stem(video_path)] = None]
    /\ c_before' = c_files
    /\ c_last' = Call("save", video_path, cwd, step, data,
                      Raise("Interrupted", {}))
    /\ UNCHANGED <<exceptStore, c_pc>>

\* CheckpointManager(video_path).load().
StoreLoad(video_path, cwd) ==
    /\ c_pc = "on"
    /\ c_before' = c_files
    /\ c_last' = Call("load", video_path, cwd, "", "",
                      load(c_files[checkpoint_file(video_path, cwd)]))
    /\ UNCHANGED <<exceptStore, c_files, c_latest, c_saver, c_pc>>

\* CheckpointManager(video_path).clear(): an exception leaves the file.
StoreClear(video_path, cwd) ==
    /\ c_pc = "on"
    /\ LET f == checkpoint_file(video_path, cwd)
           name == Stem(video_path)
           outcome == clear(c_files[f])
       IN  /\ c_files' =
                  IF outcome.raises
                  THEN c_files
                  ELSE [c_files EXCEPT ![f] = outcome.value]
           /\ c_latest' =
                  IF outcome.raises
                  THEN c_latest
                  ELSE [c_latest EXCEPT ![name] = None]
           /\ c_saver' =
                  IF outcome.raises
                  THEN c_saver
                  ELSE [c_saver EXCEPT ![name] = None]
           /\ c_last' = Call("clear", video_path, cwd, "", "",
                             IF outcome.raises THEN outcome ELSE Returns(None))
    /\ c_before' = c_files
    /\ UNCHANGED <<exceptStore, c_pc>>

NextStore ==
    \/ \E video_path \in VideoPaths, cwd \in WorkingDirs,
          step \in StoreSteps, data \in StoreData :
           StoreSave(video_path, cwd, step, data)
    \/ \E video_path \in VideoPaths, cwd \in WorkingDirs,
          step \in StoreSteps, data \in StoreData :
           StoreSaveInterrupted(video_path, cwd, step, data)
    \/ \E video_path \in VideoPaths, cwd \in WorkingDirs :
           StoreLoad(video_path, cwd)
    \/ \E video_path \in VideoPaths, cwd \in WorkingDirs :
           StoreClear(video_path, cwd)

SpecStore == InitStore /\ [][NextStore]_vars

(***************************************************************************)
(* Claims about the checkpoint store.                                      *)
(***************************************************************************)
\* The last call was `op` and returned.
Called(op) ==
    c_pc = "on" /\ c_last # None /\ c_last.op = op /\ ~ c_last.outcome.raises

\* The checkpoint file of the last call, and its identity.
LastFile == checkpoint_file(c_last.video_path, c_last.cwd)

LastIdentity == Stem(c_last.video_path)

\* Every file but the one of the last call is as it was before the call.
OtherFilesUntouched ==
    \A f \in CheckpointFiles \ {LastFile} : c_files[f] = c_before[f]

\* The calls so far left a whole record for the identity.
HasLatest(name) == c_latest[name] # None /\ "step" \in DOMAIN c_latest[name]

\* C18: after any sequence of saves for one identity exactly one record is
\* there for it and load returns the stage and payload of the most recent
\* save; a second save with the same stage makes no second record.
C18_SaveOverwrites ==
    /\ c_pc = "on" =>
           \A video_path \in VideoPaths, cwd \in WorkingDirs :
               HasLatest(Stem(video_path))
               => /\ c_files[checkpoint_file(video_path, cwd)].kind = "json"
                  /\ load(c_files[checkpoint_file(video_path, cwd)])
                     = Returns(c_latest[Stem(video_path)])
    /\ Called("save") =>
           /\ load(c_files[LastFile]) =
                  Returns([step |-> c_last.step, data |-> c_last.data])
           /\ OtherFilesUntouched
    /\ (Called("load") /\ HasLatest(LastIdentity))
       => c_last.outcome.value = c_latest[LastIdentity]

\* A save over a record of the same stage with another payload, next to the
\* record of another identity.
C18_Witness ==
    /\ Called("save")
    /\ c_last.video_path = "talk.mp4"
    /\ c_before[LastFile] = Record("translation", "d1")
    /\ c_files[LastFile] = Record("translation", "d2")
    /\ c_latest["talk"] = [step |-> "translation", data |-> "d2"]
    /\ HasLatest("clip")

\* C19: after clear(identity) load(identity) returns absent until the next
\* save for the identity; clear without a record returns without an error
\* and changes nothing; clear leaves the records of the other identities.
C19_Clear ==
    /\ c_pc = "on" =>
           \A video_path \in VideoPaths, cwd \in WorkingDirs :
               c_latest[Stem(video_path)] = None
               => load(c_files[checkpoint_file(video_path, cwd)]) = Returns(None)
    /\ (c_pc = "on" /\ c_last # None /\ c_last.op = "clear") =>
           /\ ~ c_last.outcome.raises
           /\ load(c_files[LastFile]) = Returns(None)
           /\ OtherFilesUntouched
           /\ (c_before[LastFile].kind = "absent" => c_files = c_before)
    /\ (Called("load") /\ c_latest[LastIdentity] = None)
       => c_last.outcome.value = None

\* clear without a record, next to the record of another identity.
C19_Witness ==
    /\ Called("clear")
    /\ c_last.video_path = "talk.mp4"
    /\ c_before[LastFile].kind = "absent"
    /\ HasLatest("clip")
    /\ c_latest["talk"] = None

\* C20: load on a stored record that is not valid JSON returns absent, does
\* not raise, and leaves the stored record as it is.
C20_UnparsableIsAbsence ==
    (c_pc = "on" /\ c_last # None /\ c_last.op = "load"
     /\ c_before[LastFile].kind = "truncated")
    => /\ ~ c_last.outcome.raises
       /\ c_last.outcome.value = None
       /\ c_files = c_before

C20_Witness ==
    /\ Called("load")
    /\ c_before[LastFile].kind = "truncated"
    /\ c_files[LastFile].kind = "truncated"
    /\ c_last.outcome.value = None

\* C22: the checkpoint identity of a video depends only on its base name:
\* whatever the working directory and the directory prefix of the name, the
\* same base name gives the same checkpoint file, and a checkpoint saved by
\* one process is what load returns in a later process for the same video.
C22_StableIdentity ==
    /\ \A p \in VideoPaths, q \in VideoPaths :
           \A c \in WorkingDirs, d \in WorkingDirs :
               Stem(p) = Stem(q) => checkpoint_file(p, c) = checkpoint_file(q, d)
    /\ (Called("load") /\ c_saver[LastIdentity] # None)
       => c_last.outcome.value = c_latest[LastIdentity]

\* Saved as talk.mp4 from one directory, loaded by its absolute name from
\* another.
C22_Witness ==
    /\ Called("load")
    /\ c_last.video_path = "/home/u/talk.mp4"
    /\ c_last.cwd = "/srv"
    /\ c_saver["talk"] = [video_path |-> "talk.mp4", cwd |-> "/home/u"]
    /\ c_last.outcome.value = [step |-> "translation", data |-> "d2"]

\* The file that video_path names in a process whose working directory is
\* cwd.
VideoFile(video_path, cwd) ==
    IF video_path = "/home/u/talk.mp4" THEN video_path
    ELSE cwd \o "/" \o video_path

\* C39: a checkpoint saved while one video was processed is never loaded,
\* overwritten or cleared by a call for another video (another file, in
\* another directory or with another extension): such a call leaves the
\* record as it is and a load returns none of it.
C39_VideoIsolation ==
    [][LET call == c_last'
           owner == c_saver[Stem(call.video_path)]
           f == checkpoint_file(call.video_path, call.cwd)
       IN  (/\ owner # None
            /\ VideoFile(owner.video_path, owner.cwd)
                   # VideoFile(call.video_path, call.cwd))
           => /\ c_files'[f] = c_files[f]
              /\ call.op = "load" => call.outcome.value = None]_storeVars

(***************************************************************************)
(* The sentence structure analysis: analyze_sentence_structure of          *)
(* utils/ai/timing.py ("ai"), and analyze_sentence_structure with          *)
(* analyze_structure_batch of utils/timing_deepseek.py ("legacy").         *)
(***************************************************************************)
analysis_batch_size == 20

\* What the backend thinks of the segment at position k.
Verdict(k) == IF k % 2 = 1 THEN "CONTINUES" ELSE "COMPLETE"

\* A line of the answer whose upper case matches ^\d+[\.\)\s]+([A-Z]+) with
\* `status` as the group, and a line that does not match.
StatusLine(status) == [numbered |-> TRUE, status |-> status]
Unmatched == [numbered |-> FALSE, status |-> ""]

\* The answer to the batch that starts at position lo, cut or extended to k
\* lines.
VerdictLines(lo, k) == [j \in 1..k |-> StatusLine(Verdict(lo + j - 1))]

\* The answers to a batch of n segments: too few lines, all n, one too
\* many; all n with the first or the last status not a known one; all n
\* after a line that is not a status line.
AnalysisResponses(lo, n) ==
    {VerdictLines(lo, k) : k \in {0, n - 1, n, n + 1}}
    \cup {[VerdictLines(lo, n) EXCEPT ![p] = StatusLine("MAYBE")] : p \in {1, n}}
    \cup {<<Unmatched>> \o VerdictLines(lo, n)}

AnalysisOutcomes(lo, n) ==
    {[fails |-> TRUE, lines |-> << >>]}
    \cup {[fails |-> FALSE, lines |-> r] : r \in AnalysisResponses(lo, n)}

KnownStatus(line) == line.numbered /\ line.status \in {"COMPLETE", "CONTINUES"}

AllComplete(n) == [j \in 1..n |-> "COMPLETE"]

\* utils/ai/timing.py 106-145: the lines with a known status, in their
\* order, then COMPLETE while there are fewer than n; all COMPLETE when the
\* call raises.
BatchStatuses(n, outcome) ==
    IF outcome.fails THEN AllComplete(n)
    ELSE LET known == SelectSeq(outcome.lines, KnownStatus)
             batch_statuses == [j \in 1..Len(known) |-> known[j].status]
         IN  IF Len(batch_statuses) < n
             THEN batch_statuses \o AllComplete(n - Len(batch_statuses))
             ELSE batch_statuses

IsStatusLine(line) == line.numbered

\* utils/timing_deepseek.py 8-91: every matching line gives a status,
\* COMPLETE when its word is not a known one; padded with COMPLETE and cut
\* to n.
analyze_structure_batch(n, outcome) ==
    IF outcome.fails THEN AllComplete(n)
    ELSE LET matched == SelectSeq(outcome.lines, IsStatusLine)
             statuses == [j \in 1..Len(matched) |->
                             IF KnownStatus(matched[j]) THEN matched[j].status
                             ELSE "COMPLETE"]
         IN  IF Len(statuses) < n
             THEN statuses \o AllComplete(n - Len(statuses))
             ELSE SubSeq(statuses, 1, n)

\* The numbers of segments: none, one, one full batch, one more.
AnalysisSizes == {0, 1, analysis_batch_size, analysis_batch_size + 1}

InitAnalysis ==
    /\ a_impl \in {"ai", "legacy"}
    /\ \E n \in AnalysisSizes : a_texts = [k \in 1..n |-> "s" \o ToString(k)]
    /\ a_i = 0
    /\ a_statuses = << >>
    /\ a_calls = << >>
    /\ a_pc = "loop"
    /\ PipelineIdle
    /\ TimingIdle
    /\ TranslatorIdle
    /\ ShieldIdle
    /\ StoreIdle

\* One iteration of the loop: batch = texts[i:i + batch_size], the call,
\* statuses.extend(batch_statuses).
AnalyzeBatch(outcome) ==
    /\ a_pc = "loop"
    /\ a_i < Len(a_texts)
    /\ LET n == Min(a_i + analysis_batch_size, Len(a_texts)) - a_i
           batch_statuses == IF a_impl = "ai"
                             THEN BatchStatuses(n, outcome)
                             ELSE analyze_structure_batch(n, outcome)
       IN  /\ outcome \in AnalysisOutcomes(a_i + 1, n)
           /\ a_statuses' = a_statuses \o batch_statuses
           /\ a_calls' = Append(a_calls,
                                [lo |-> a_i + 1, size |-> n,
                                 outcome |-> outcome,
                                 returned |-> batch_statuses])
    /\ a_i' = a_i + analysis_batch_size
    /\ UNCHANGED <<exceptAnalyzer, a_impl, a_texts, a_pc>>

\* The loop ends: return statuses.
AnalysisLoopEnds ==
    /\ a_pc = "loop"
    /\ a_i >= Len(a_texts)
    /\ a_pc' = "done"
    /\ UNCHANGED <<exceptAnalyzer, a_impl, a_texts, a_i, a_statuses, a_calls>>

NextAnalysis ==
    \/ \E lo \in {1, analysis_batch_size + 1}, n \in 1..analysis_batch_size :
           \E outcome \in AnalysisOutcomes(lo, n) : AnalyzeBatch(outcome)
    \/ AnalysisLoopEnds

SpecAnalysis == InitAnalysis /\ [][NextAnalysis]_vars

(***************************************************************************)
(* Claims about the sentence structure analysis.                           *)
(***************************************************************************)
\* The backend answered `call` with one status line per segment.
LinePerSegment(call) ==
    /\ ~ call.outcome.fails
    /\ Len(call.outcome.lines) = call.size
    /\ \A p \in 1..call.size : call.outcome.lines[p].numbered

\* The hints of the batch of `call` are in place: as many as segments, at
\* the positions of the batch, and where the backend gave one status line
\* per segment each known status is the hint of the segment of its line.
HintsInPlace(call) ==
    /\ Len(call.returned) = call.size
    /\ Len(a_statuses) >= call.lo + call.size - 1
    /\ \A p \in 1..call.size :
           /\ a_statuses[call.lo + p - 1] \in {"COMPLETE", "CONTINUES"}
           /\ (LinePerSegment(call) /\ KnownStatus(call.outcome.lines[p]))
              => a_statuses[call.lo + p - 1] = call.outcome.lines[p].status
           /\ call.outcome.fails => a_statuses[call.lo + p - 1] = "COMPLETE"

\* C36: whatever the backend answers (lines missing, surplus lines, lines
\* with an invalid status, a failed call), analyze_sentence_structure
\* returns exactly one hint per segment, in the order of the segments, so
\* that hint i is the hint of cue i, over all the batches of 20; in
\* utils/ai/timing.py and utils/timing_deepseek.py alike.
C36_HintsAlign ==
    /\ \A c \in 1..Len(a_calls) : HintsInPlace(a_calls[c])
    /\ a_pc = "done" => Len(a_statuses) = Len(a_texts)

\* The same property of utils/timing_deepseek.py alone.
C36_HintsAlignLegacy == a_impl = "legacy" => C36_HintsAlign

=============================================================================
